---- MODULE Spec2Model ----
(***************************************************************************)
(* mdsearch: four exact-match multi-dimensional point indexes (KDTree,     *)
(* BucketKDTree, PyramidTree over HashStructure, Multigrid) driven through *)
(* their public operations insert / remove / query / clear.                *)
(*                                                                         *)
(* Coordinates are integers that count half-EPSILONs (EPSILON == 2), so a  *)
(* coordinate c stands for the real c * 0.5e-7.  The point universes used  *)
(* below hold multiples of EPSILON only, where the tolerant equality of    *)
(* compare() and exact equality coincide.  Arithmetic is exact: float      *)
(* rounding is not modelled.                                               *)
(***************************************************************************)
EXTENDS Integers, Sequences, FiniteSets, TLC

(***************************************************************************)
(* Bounds of the model.                                                    *)
(***************************************************************************)
\* Grid coordinates are EPSILON * 0 .. EPSILON * MaxCoord in every dimension.
MaxCoord == 3
\* The points the harness draws from are the first Num...Points grid points
\* in row-major order (last dimension fastest), one count per index.
NumKDTreePoints == 8
NumBucketKDTreePoints == 9
NumPyramidTreePoints == 6
NumMultigridPoints == 5
\* KDTree: an insert that would grow the tree past MaxNodes nodes is not taken.
MaxNodes == 4
\* KDTree, deep trees: the same with up to MaxDeepNodes nodes.
MaxDeepNodes == 5
\* Multigrid: an insert that would grow m_points past MaxSlots is not taken.
MaxSlots == 2
\* Tolerant equality: coordinates 0 .. MaxFine half-EPSILONs in every
\* dimension, and at most MaxTolStored points stored.
MaxFine == 3
MaxTolStored == 2
\* The test datasets hold every ordering of up to MaxShuffled points.
MaxShuffled == 3
\* BucketKDTree, deep trees: the harness draws from NumDeepPoints points, all
\* within DeepSpread grid steps of the origin but one, which lies FarCoord
\* steps away.
NumDeepPoints == 11
DeepSpread == 10
FarCoord == 100
\* Split and merge scenario: at most MaxRemoved of the nine points are removed.
MaxRemoved == 6
\* Split policy: the leaf is filled from a 3 x 3 grid whose steps are
\* EPSILON * 1 .. EPSILON * MaxStretch in each dimension.
MaxStretch == 2
\* Integer split harness: the eighth point of the leaf lies 1 .. MaxFar
\* integer steps from the others along dimension 0.
MaxFar == 9
\* PyramidTree hash: boundaries HashWidth units wide, every coordinate inside.
HashWidth == 10
\* Multigrid: the m_intervalsPerDimension the index is constructed with.
m_intervalsPerDimension == 3

\* Multigrid: the m_bucketSize the index is constructed with (8 when the
\* constructor is given none).
m_bucketSize == 1

VARIABLES
    structure,        \* the index the harness drives
    root,             \* KDTree::root
    m_root,           \* BucketKDTree::m_root
    hashMap,          \* HashStructure::hashMap (of the PyramidTree)
    m_boundary,       \* PyramidTree::m_boundary
    boundary,         \* Multigrid::boundary
    m_rootBuckets,    \* Multigrid::m_rootBuckets
    m_points,         \* Multigrid::m_points
    m_unusedIndices,  \* Multigrid::m_unusedIndices (top of the stack last)
    op, arg, ret,     \* the last public call, its argument and its result
    outcome,          \* the number the last call returned, or its fault
    testPoints,       \* testStructureOperations: the dataset 'points'
    testPhase,        \* testStructureOperations: the loop being run
    testIndex,        \* testStructureOperations: the loop counter i
    testResult        \* testStructureOperations: "running", "passed" or "failed"

kdVars == <<root>>
bkdVars == <<m_root>>
pyrVars == <<hashMap, m_boundary>>
mgVars == <<boundary, m_rootBuckets, m_points, m_unusedIndices>>
callVars == <<op, arg, ret, outcome>>
testVars == <<testPoints, testPhase, testIndex, testResult>>
vars == <<structure, root, m_root, hashMap, m_boundary, boundary,
          m_rootBuckets, m_points, m_unusedIndices, op, arg, ret, outcome,
          testPoints, testPhase, testIndex, testResult>>

(***************************************************************************)
(* Program constants.                                                      *)
(***************************************************************************)
\* Template parameter D of every index (dimensionality of the points): 3 in
\* the BucketKDTree<3> of the split and merge scenario, 1 in the Multigrid<1>
\* of the one-dimensional harness, 2 everywhere else.
D == IF testPhase = "scenarioB" THEN 3 ELSE IF testPhase = "oneDim" THEN 1 ELSE 2
\* Template parameter ELEM_TYPE: an integer type in the BucketKDTree<2, int>
\* of the integer split harness, Real (float) everywhere else.  An integer v
\* is the coordinate EPSILON * v, a grid point, where compare() is exact.
IntegerElements == testPhase = "intSplit"
\* types.hpp: static const Real EPSILON = 1.0e-7, in units of half an EPSILON.
EPSILON == 2

NULL == <<>>
Dims == 0 .. (D - 1)
Structures == {"KDTree", "BucketKDTree", "PyramidTree", "Multigrid"}

RECURSIVE Pow(_, _)
Pow(b, e) == IF e = 0 THEN 1 ELSE b * Pow(b, e - 1)

\* Point<D, ELEM_TYPE>: values[D], indexed from 0 as in the source.
\* PointAt(n) is the n-th grid point in row-major order, IndexOf its inverse.
PointAt(n) ==
    [d \in Dims |-> EPSILON * ((n \div Pow(MaxCoord + 1, D - 1 - d)) % (MaxCoord + 1))]

RECURSIVE IndexUpTo(_, _)
IndexUpTo(p, d) ==
    IF d < 0 THEN 0
    ELSE IndexUpTo(p, d - 1) * (MaxCoord + 1) + (p[d] \div EPSILON)

IndexOf(p) == IndexUpTo(p, D - 1)
Universe(n) == {PointAt(k) : k \in 0 .. (n - 1)}

KDTreePoints == Universe(NumKDTreePoints)
BucketKDTreePoints == Universe(NumBucketKDTreePoints)
PyramidTreePoints == Universe(NumPyramidTreePoints)
MultigridPoints == Universe(NumMultigridPoints)

\* boundary.hpp: Interval and Boundary
Interval(min, max) == [min |-> min, max |-> max]
Boundary(min, max) == [d \in Dims |-> Interval(min, max)]

\* The boundaries the harness constructs and clears PyramidTree with: the
\* first leaves the grid coordinates above 2 outside, the second those below 1.
PyramidTreeBoundaries ==
    {Boundary(0, 2 * EPSILON), Boundary(EPSILON, 3 * EPSILON)}
\* The boundaries the harness constructs and clears Multigrid with: both
\* hold the whole grid.
MultigridBoundaries ==
    {Boundary(0, EPSILON * MaxCoord), Boundary(0, 2 * EPSILON * MaxCoord)}

Abs(x) == IF x < 0 THEN -x ELSE x

(***************************************************************************)
(* types.hpp / point.hpp                                                   *)
(***************************************************************************)
\* A faulty compare: a difference of exactly EPSILON counts as equal.
compareInclusive(t, base) ==
    IF Abs(t - base) <= EPSILON THEN 0
    ELSE IF t < base THEN -1
    ELSE 1

compare(t, base) ==
    IF Abs(t - base) < EPSILON THEN 0
    ELSE IF t < base THEN -1
    ELSE 1

\* Point::operator==
PointEquals(a, b) == \A d \in Dims : compare(a[d], b[d]) = 0

\* Point::operator!=
PointNotEquals(a, b) == ~PointEquals(a, b)

RECURSIVE SumUpTo(_, _)
SumUpTo(p, d) == IF d < 0 THEN 0 ELSE SumUpTo(p, d - 1) + p[d]
\* Point::sum
PointSum(p) == SumUpTo(p, D - 1)

(***************************************************************************)
(* kdtree.hpp                                                              *)
(***************************************************************************)
\* KDTree::Node(p): a leaf node holding p.
Node(p) == [point |-> p, leftChild |-> NULL, rightChild |-> NULL]

nextCuttingDimension(cuttingDim) == (cuttingDim + 1) % D

\* A faulty insert: a point whose cutting coordinate ties with the node's
\* goes to the left sub-tree, where query never looks.
RECURSIVE KDTree_insertTieLeft(_, _, _)
KDTree_insertTieLeft(current, p, cuttingDim) ==
    IF current = NULL
    THEN [node |-> Node(p), ret |-> TRUE]
    ELSE IF PointEquals(p, current.point)
    THEN [node |-> current, ret |-> FALSE]
    ELSE IF p[cuttingDim] <= current.point[cuttingDim]
    THEN LET r == KDTree_insertTieLeft(current.leftChild, p,
                                       nextCuttingDimension(cuttingDim))
         IN  [node |-> [current EXCEPT !.leftChild = r.node], ret |-> r.ret]
    ELSE LET r == KDTree_insertTieLeft(current.rightChild, p,
                                       nextCuttingDimension(cuttingDim))
         IN  [node |-> [current EXCEPT !.rightChild = r.node], ret |-> r.ret]

\* KDTree::insert: the walk from 'current' (the loop body, one level per
\* call); returns the subtree with the parent's child pointer updated, and
\* the value returned to the caller.
RECURSIVE KDTree_insert(_, _, _)
KDTree_insert(current, p, cuttingDim) ==
    IF current = NULL
    THEN [node |-> Node(p), ret |-> TRUE]
    ELSE IF p[cuttingDim] < current.point[cuttingDim]
    THEN LET r == KDTree_insert(current.leftChild, p,
                                nextCuttingDimension(cuttingDim))
         IN  [node |-> [current EXCEPT !.leftChild = r.node], ret |-> r.ret]
    ELSE IF PointEquals(p, current.point)
    THEN [node |-> current, ret |-> FALSE]
    ELSE LET r == KDTree_insert(current.rightChild, p,
                                nextCuttingDimension(cuttingDim))
         IN  [node |-> [current EXCEPT !.rightChild = r.node], ret |-> r.ret]

\* KDTree::query: the walk from 'current'.
RECURSIVE KDTree_query(_, _, _)
KDTree_query(current, p, cuttingDim) ==
    IF current = NULL
    THEN FALSE
    ELSE IF PointEquals(p, current.point)
    THEN TRUE
    ELSE IF p[cuttingDim] < current.point[cuttingDim]
    THEN KDTree_query(current.leftChild, p, nextCuttingDimension(cuttingDim))
    ELSE KDTree_query(current.rightChild, p, nextCuttingDimension(cuttingDim))

Min2(a, b) == IF b < a THEN b ELSE a

\* A faulty findMinimum: only the left child is ever searched.
RECURSIVE KDTree_findMinimumLeftOnly(_, _, _)
KDTree_findMinimumLeftOnly(node, dimension, cuttingDim) ==
    IF node = NULL
    THEN NULL
    ELSE IF node.leftChild = NULL
    THEN node.point
    ELSE LET a == KDTree_findMinimumLeftOnly(node.leftChild, dimension,
                                             nextCuttingDimension(cuttingDim))
         IN  IF dimension = cuttingDim \/ a[dimension] < node.point[dimension]
             THEN a
             ELSE node.point

\* KDTree::findMinimum: the point of the subtree with the lowest value in
\* 'dimension' (NULL for an empty subtree).
RECURSIVE KDTree_findMinimum(_, _, _)
KDTree_findMinimum(node, dimension, cuttingDim) ==
    IF node = NULL
    THEN NULL
    ELSE IF dimension = cuttingDim
    THEN IF node.leftChild = NULL
         THEN node.point
         ELSE KDTree_findMinimum(node.leftChild, dimension,
                                 nextCuttingDimension(cuttingDim))
    ELSE LET a == KDTree_findMinimum(node.leftChild, dimension,
                                     nextCuttingDimension(cuttingDim))
             b == KDTree_findMinimum(node.rightChild, dimension,
                                     nextCuttingDimension(cuttingDim))
         IN  IF a # NULL /\ b # NULL
             THEN LET minVal == Min2(node.point[dimension],
                                     Min2(a[dimension], b[dimension]))
                  IN  IF minVal = node.point[dimension] THEN node.point
                      ELSE IF minVal = a[dimension] THEN a
                      ELSE b
             ELSE IF a # NULL
             THEN LET minVal == Min2(node.point[dimension], a[dimension])
                  IN  IF minVal = node.point[dimension] THEN node.point ELSE a
             ELSE IF b # NULL
             THEN LET minVal == Min2(node.point[dimension], b[dimension])
                  IN  IF minVal = node.point[dimension] THEN node.point ELSE b
             ELSE node.point

\* A faulty remove: the node found is deleted with its children, as the
\* destructor of Node would do, whether it is a leaf or not.
RECURSIVE KDTree_recursiveRemoveSubtree(_, _, _, _)
KDTree_recursiveRemoveSubtree(node, p, cuttingDim, removed) ==
    IF node = NULL
    THEN [node |-> NULL, removed |-> removed]
    ELSE IF p[cuttingDim] < node.point[cuttingDim]
    THEN LET r == KDTree_recursiveRemoveSubtree(node.leftChild, p,
                      nextCuttingDimension(cuttingDim), removed)
         IN  [node |-> [node EXCEPT !.leftChild = r.node],
              removed |-> r.removed]
    ELSE IF p[cuttingDim] > node.point[cuttingDim]
    THEN LET r == KDTree_recursiveRemoveSubtree(node.rightChild, p,
                      nextCuttingDimension(cuttingDim), removed)
         IN  [node |-> [node EXCEPT !.rightChild = r.node],
              removed |-> r.removed]
    ELSE [node |-> NULL, removed |-> TRUE]

\* A faulty remove: when the node found has no right child, what is left of
\* its left sub-tree stays on the left.
RECURSIVE KDTree_recursiveRemoveNoSwap(_, _, _, _)
KDTree_recursiveRemoveNoSwap(node, p, cuttingDim, removed) ==
    IF node = NULL
    THEN [node |-> NULL, removed |-> removed]
    ELSE IF p[cuttingDim] < node.point[cuttingDim]
    THEN LET r == KDTree_recursiveRemoveNoSwap(node.leftChild, p,
                      nextCuttingDimension(cuttingDim), removed)
         IN  [node |-> [node EXCEPT !.leftChild = r.node],
              removed |-> r.removed]
    ELSE IF p[cuttingDim] > node.point[cuttingDim]
    THEN LET r == KDTree_recursiveRemoveNoSwap(node.rightChild, p,
                      nextCuttingDimension(cuttingDim), removed)
         IN  [node |-> [node EXCEPT !.rightChild = r.node],
              removed |-> r.removed]
    ELSE IF node.leftChild = NULL /\ node.rightChild = NULL
         THEN [node |-> NULL, removed |-> TRUE]
         ELSE IF node.rightChild # NULL
         THEN LET m == KDTree_findMinimum(node.rightChild, cuttingDim,
                           nextCuttingDimension(cuttingDim))
                  r == KDTree_recursiveRemoveNoSwap(node.rightChild, m,
                           nextCuttingDimension(cuttingDim), removed)
              IN  [node |-> [point |-> m,
                             leftChild |-> node.leftChild,
                             rightChild |-> r.node],
                   removed |-> r.removed]
         ELSE LET m == KDTree_findMinimum(node.leftChild, cuttingDim,
                           nextCuttingDimension(cuttingDim))
                  r == KDTree_recursiveRemoveNoSwap(node.leftChild, m,
                           nextCuttingDimension(cuttingDim), removed)
              IN  [node |-> [point |-> m,
                             leftChild |-> r.node,
                             rightChild |-> NULL],
                   removed |-> r.removed]

\* KDTree::recursiveRemove: returns the subtree that replaces 'node' and the
\* 'removed' flag (an out-parameter in the source, passed through here).
RECURSIVE KDTree_recursiveRemove(_, _, _, _)
KDTree_recursiveRemove(node, p, cuttingDim, removed) ==
    IF node = NULL
    THEN [node |-> NULL, removed |-> removed]
    ELSE IF p[cuttingDim] < node.point[cuttingDim]
    THEN LET r == KDTree_recursiveRemove(node.leftChild, p,
                      nextCuttingDimension(cuttingDim), removed)
         IN  [node |-> [node EXCEPT !.leftChild = r.node],
              removed |-> r.removed]
    ELSE IF p[cuttingDim] > node.point[cuttingDim]
    THEN LET r == KDTree_recursiveRemove(node.rightChild, p,
                      nextCuttingDimension(cuttingDim), removed)
         IN  [node |-> [node EXCEPT !.rightChild = r.node],
              removed |-> r.removed]
    ELSE \* "found node that stores given point"
         IF node.leftChild = NULL /\ node.rightChild = NULL
         THEN [node |-> NULL, removed |-> TRUE]
         ELSE IF node.rightChild # NULL
         THEN LET m == KDTree_findMinimum(node.rightChild, cuttingDim,
                           nextCuttingDimension(cuttingDim))
                  r == KDTree_recursiveRemove(node.rightChild, m,
                           nextCuttingDimension(cuttingDim), removed)
              IN  [node |-> [point |-> m,
                             leftChild |-> node.leftChild,
                             rightChild |-> r.node],
                   removed |-> r.removed]
         ELSE LET m == KDTree_findMinimum(node.leftChild, cuttingDim,
                           nextCuttingDimension(cuttingDim))
                  r == KDTree_recursiveRemove(node.leftChild, m,
                           nextCuttingDimension(cuttingDim), removed)
              IN  \* "Swap left child with right child"
                  [node |-> [point |-> m,
                             leftChild |-> NULL,
                             rightChild |-> r.node],
                   removed |-> r.removed]

\* KDTree::remove
KDTree_remove(rt, p) ==
    LET r == KDTree_recursiveRemove(rt, p, 0, FALSE)
    IN  [root |-> r.node, ret |-> r.removed]

\* KDTree::clear
KDTree_clear(rt) == NULL

\* The points held by the nodes of a tree, and the number of its nodes.
RECURSIVE KDNodePoints(_)
KDNodePoints(node) ==
    IF node = NULL THEN {}
    ELSE {node.point} \cup KDNodePoints(node.leftChild)
                      \cup KDNodePoints(node.rightChild)

RECURSIVE KDSize(_)
KDSize(node) ==
    IF node = NULL THEN 0
    ELSE 1 + KDSize(node.leftChild) + KDSize(node.rightChild)

\* The nodes of a sub-tree, each as the path from its root and its point.
RECURSIVE KDNodes(_, _)
KDNodes(node, path) ==
    IF node = NULL THEN {}
    ELSE {[path |-> path, point |-> node.point]}
         \cup KDNodes(node.leftChild, Append(path, "L"))
         \cup KDNodes(node.rightChild, Append(path, "R"))

(***************************************************************************)
(* bucket_kdtree.hpp (src/include/dataset.hpp, second file of the listing) *)
(***************************************************************************)
MAX_POINTS_PER_BUCKET == 8
MIN_POINTS_BEFORE_MERGE == MAX_POINTS_PER_BUCKET \div 2

\* A value of ELEM_TYPE that need not be a whole number of coordinate units:
\* the quotient num / den, den > 0 (averageOfDimension divides a sum by a
\* count).  RealLess(c, v) is c < v for a coordinate c.
Real(num, den) == [num |-> num, den |-> den]
RealLess(c, v) == c * v.den < v.num

\* rangeOfDimension: the scan of points[i .. ] with the running min and max.
RECURSIVE RangeScan(_, _, _, _, _)
RangeScan(d, points, i, min, max) ==
    IF i > Len(points) THEN max - min
    ELSE LET val == points[i][d]
         IN  IF val < min THEN RangeScan(d, points, i + 1, val, max)
             ELSE IF val > max THEN RangeScan(d, points, i + 1, min, val)
             ELSE RangeScan(d, points, i + 1, min, max)

rangeOfDimension(d, points) ==
    IF points = <<>> THEN 0
    ELSE RangeScan(d, points, 1, points[1][d], points[1][d])

\* dimensionWithHighestRange: the loop over d .. D-1 with the running choice.
RECURSIVE HighestRangeScan(_, _, _, _)
HighestRangeScan(points, d, chosenDim, maxRange) ==
    IF d >= D THEN chosenDim
    ELSE LET range == rangeOfDimension(d, points)
         IN  IF range > maxRange
             THEN HighestRangeScan(points, d + 1, d, range)
             ELSE HighestRangeScan(points, d + 1, chosenDim, maxRange)

\* A faulty choice: among dimensions of equal range the last one is taken.
RECURSIVE HighestRangeScanLast(_, _, _, _)
HighestRangeScanLast(points, d, chosenDim, maxRange) ==
    IF d >= D THEN chosenDim
    ELSE LET range == rangeOfDimension(d, points)
         IN  IF range >= maxRange
             THEN HighestRangeScanLast(points, d + 1, d, range)
             ELSE HighestRangeScanLast(points, d + 1, chosenDim, maxRange)

dimensionWithHighestRangeLast(points) ==
    HighestRangeScanLast(points, 1, 0, rangeOfDimension(0, points))

dimensionWithHighestRange(points) ==
    HighestRangeScan(points, 1, 0, rangeOfDimension(0, points))

RECURSIVE SumOfDimension(_, _, _)
SumOfDimension(d, points, i) ==
    IF i > Len(points) THEN 0
    ELSE points[i][d] + SumOfDimension(d, points, i + 1)

\* A faulty average: the sum is divided by one more than the number of points.
averageOfDimensionOffByOne(d, points) ==
    Real(SumOfDimension(d, points, 1), Len(points) + 1)

\* averageOfDimension: sum / points.size() in ELEM_TYPE: an exact quotient
\* for a float, the truncated quotient for an integer type (the coordinates
\* of the integer harness are not negative).
averageOfDimension(d, points) ==
    IF IntegerElements
    THEN Real(EPSILON * ((SumOfDimension(d, points, 1) \div EPSILON) \div Len(points)), 1)
    ELSE Real(SumOfDimension(d, points, 1), Len(points))

\* BucketKDTreeNode(parent, points): a leaf holding the given points.  The
\* parent pointer is the position of the node in the tree.
BucketKDTreeNode(points) ==
    [m_totalPoints |-> Len(points), m_isLeaf |-> TRUE, m_points |-> points,
     m_leftChild |-> NULL, m_rightChild |-> NULL,
     m_cuttingDimension |-> 0, m_cuttingValue |-> Real(0, 1)]

\* BucketKDTreeNode::contains (std::find with Point::operator==)
BucketKDTreeNode_contains(node, p) ==
    \E i \in 1 .. Len(node.m_points) : PointEquals(node.m_points[i], p)

\* A faulty predicate: the points at or above the cutting value go in front.
SplitPredicateReversed(cuttingDimension, cuttingValue, p) ==
    ~RealLess(p[cuttingDimension], cuttingValue)

\* SplitPredicate::operator()
SplitPredicate(cuttingDimension, cuttingValue, p) ==
    RealLess(p[cuttingDimension], cuttingValue)

\* std::partition keeps the points that satisfy the predicate in front; the
\* order inside each part is the library's choice and is kept as it was.
PartitionLeft(points, cd, cv) ==
    SelectSeq(points, LAMBDA q : SplitPredicate(cd, cv, q))
PartitionRight(points, cd, cv) ==
    SelectSeq(points, LAMBDA q : ~SplitPredicate(cd, cv, q))

\* A faulty addPoint: a full leaf takes the point without splitting.
BucketKDTreeNode_addPointNoSplit(node, p) ==
    IF BucketKDTreeNode_contains(node, p)
    THEN [node |-> node, ret |-> FALSE]
    ELSE [node |-> [node EXCEPT !.m_points = Append(@, p),
                                !.m_totalPoints = @ + 1],
          ret |-> TRUE]

\* BucketKDTreeNode::addPoint and splitAndInsert.  Both return the node as
\* it is after the call; m_totalPoints of the node and (in the callers) of
\* its ancestors grows by one exactly when incrementTotalPoints ran, that
\* is when the point was stored.
\* splitAndInsert on a full leaf that does not hold p: the partition leaves
\* every point of the leaf on the side p goes to, so addPoint on that child
\* calls splitAndInsert with the same points, the same cutting plane and the
\* same p again, and the recursion never returns.
BucketKDTreeNode_splitNeverEnds(node, p) ==
    LET cuttingDimension == dimensionWithHighestRange(node.m_points)
        cuttingValue == averageOfDimension(cuttingDimension, node.m_points)
        side == IF RealLess(p[cuttingDimension], cuttingValue)
                THEN PartitionLeft(node.m_points, cuttingDimension, cuttingValue)
                ELSE PartitionRight(node.m_points, cuttingDimension, cuttingValue)
    IN  /\ Len(node.m_points) >= MAX_POINTS_PER_BUCKET
        /\ Len(side) = Len(node.m_points)

RECURSIVE BucketKDTreeNode_addPoint(_, _)
RECURSIVE BucketKDTreeNode_splitAndInsert(_, _)
BucketKDTreeNode_addPoint(node, p) ==
    IF BucketKDTreeNode_contains(node, p)
    THEN [node |-> node, ret |-> FALSE]
    ELSE IF Len(node.m_points) >= MAX_POINTS_PER_BUCKET
    THEN [node |-> BucketKDTreeNode_splitAndInsert(node, p), ret |-> TRUE]
    ELSE [node |-> [node EXCEPT !.m_points = Append(@, p),
                                !.m_totalPoints = @ + 1],
          ret |-> TRUE]

BucketKDTreeNode_splitAndInsert(node, p) ==
    LET cuttingDimension == dimensionWithHighestRange(node.m_points)
        cuttingValue == averageOfDimension(cuttingDimension, node.m_points)
        left == BucketKDTreeNode(
                    PartitionLeft(node.m_points, cuttingDimension, cuttingValue))
        right == BucketKDTreeNode(
                    PartitionRight(node.m_points, cuttingDimension, cuttingValue))
        goLeft == RealLess(p[cuttingDimension], cuttingValue)
        r == IF BucketKDTreeNode_splitNeverEnds(node, p)
             THEN [node |-> IF goLeft THEN left ELSE right, ret |-> FALSE]
             ELSE IF goLeft THEN BucketKDTreeNode_addPoint(left, p)
                            ELSE BucketKDTreeNode_addPoint(right, p)
    IN  [m_totalPoints |-> node.m_totalPoints + (IF r.ret THEN 1 ELSE 0),
         m_isLeaf |-> FALSE,
         m_points |-> <<>>,
         m_leftChild |-> IF goLeft THEN r.node ELSE left,
         m_rightChild |-> IF goLeft THEN right ELSE r.node,
         m_cuttingDimension |-> cuttingDimension,
         m_cuttingValue |-> cuttingValue]

\* m_points.erase(std::remove(begin, end, p)): std::remove moves the points
\* that differ from p to the front, erase(it) then drops the one element at
\* the new logical end.
EraseRemove(points, p) ==
    LET kept == SelectSeq(points, LAMBDA q : ~PointEquals(q, p))
    IN  kept \o SubSeq(points, Len(kept) + 2, Len(points))

\* A faulty merge: only the points of the left child are kept.
BucketKDTreeNode_attemptMergeLeftOnly(node) ==
    IF node.m_totalPoints < MIN_POINTS_BEFORE_MERGE
    THEN [node |-> [node EXCEPT
                      !.m_points = node.m_leftChild.m_points,
                      !.m_isLeaf = TRUE,
                      !.m_leftChild = NULL,
                      !.m_rightChild = NULL],
          merged |-> TRUE]
    ELSE [node |-> node, merged |-> FALSE]

\* A faulty merge: the node collapses one point early.
BucketKDTreeNode_attemptMergeEarly(node) ==
    IF node.m_totalPoints <= MIN_POINTS_BEFORE_MERGE
    THEN [node |-> [node EXCEPT
                      !.m_points = node.m_leftChild.m_points
                                       \o node.m_rightChild.m_points,
                      !.m_isLeaf = TRUE,
                      !.m_leftChild = NULL,
                      !.m_rightChild = NULL],
          merged |-> TRUE]
    ELSE [node |-> node, merged |-> FALSE]

\* A faulty merge: the node is never collapsed.
BucketKDTreeNode_attemptMergeNever(node) == [node |-> node, merged |-> FALSE]

\* BucketKDTreeNode::attemptMerge on a non-leaf node; 'merged' tells the
\* caller that the parent's attemptMerge is called next.
BucketKDTreeNode_attemptMerge(node) ==
    IF node.m_totalPoints < MIN_POINTS_BEFORE_MERGE
    THEN [node |-> [node EXCEPT
                      !.m_points = node.m_leftChild.m_points
                                       \o node.m_rightChild.m_points,
                      !.m_isLeaf = TRUE,
                      !.m_leftChild = NULL,
                      !.m_rightChild = NULL],
          merged |-> TRUE]
    ELSE [node |-> node, merged |-> FALSE]

\* A faulty removePoint: decrementTotalPoints is not called on the leaf.
BucketKDTreeNode_removePointNoDecrement(node, p) ==
    IF BucketKDTreeNode_contains(node, p)
    THEN [node |-> [node EXCEPT !.m_points = EraseRemove(@, p)],
          ret |-> TRUE, merge |-> TRUE]
    ELSE [node |-> node, ret |-> FALSE, merge |-> FALSE]

\* BucketKDTreeNode::removePoint on a leaf; 'merge' tells the caller that
\* m_parent->attemptMerge() is called.
BucketKDTreeNode_removePoint(node, p) ==
    IF BucketKDTreeNode_contains(node, p)
    THEN [node |-> [node EXCEPT !.m_points = EraseRemove(@, p),
                                !.m_totalPoints = @ - 1],
          ret |-> TRUE, merge |-> TRUE]
    ELSE [node |-> node, ret |-> FALSE, merge |-> FALSE]

\* BucketKDTree::findLeafFor, one level of its loop: does p go left at node?
GoesLeft(node, p) == RealLess(p[node.m_cuttingDimension], node.m_cuttingValue)

\* BucketKDTree::insert: findLeafFor, then addPoint on the leaf; on the way
\* back incrementTotalPoints has added one to every ancestor.
RECURSIVE BucketKDTree_insert(_, _)
BucketKDTree_insert(current, p) ==
    IF current.m_isLeaf
    THEN BucketKDTreeNode_addPoint(current, p)
    ELSE LET goLeft == GoesLeft(current, p)
             r == BucketKDTree_insert(
                      IF goLeft THEN current.m_leftChild
                                ELSE current.m_rightChild, p)
         IN  [node |-> [current EXCEPT
                          !.m_leftChild = IF goLeft THEN r.node ELSE @,
                          !.m_rightChild = IF goLeft THEN @ ELSE r.node,
                          !.m_totalPoints = @ + (IF r.ret THEN 1 ELSE 0)],
              ret |-> r.ret]

\* BucketKDTree::query: findLeafFor, then contains on the leaf.
RECURSIVE BucketKDTree_query(_, _)
BucketKDTree_query(current, p) ==
    IF current.m_isLeaf
    THEN BucketKDTreeNode_contains(current, p)
    ELSE BucketKDTree_query(IF GoesLeft(current, p) THEN current.m_leftChild
                                                     ELSE current.m_rightChild, p)

\* BucketKDTree::remove: findLeafFor, then removePoint on the leaf; on the
\* way back decrementTotalPoints has taken one from every ancestor, and the
\* chain of attemptMerge calls climbs while nodes merge.
RECURSIVE BucketKDTree_remove(_, _)
BucketKDTree_remove(current, p) ==
    IF current.m_isLeaf
    THEN BucketKDTreeNode_removePoint(current, p)
    ELSE LET goLeft == GoesLeft(current, p)
             r == BucketKDTree_remove(
                      IF goLeft THEN current.m_leftChild
                                ELSE current.m_rightChild, p)
             n == [current EXCEPT
                      !.m_leftChild = IF goLeft THEN r.node ELSE @,
                      !.m_rightChild = IF goLeft THEN @ ELSE r.node,
                      !.m_totalPoints = @ - (IF r.ret THEN 1 ELSE 0)]
             m == BucketKDTreeNode_attemptMerge(n)
         IN  IF r.merge
             THEN [node |-> m.node, ret |-> r.ret, merge |-> m.merged]
             ELSE [node |-> n, ret |-> r.ret, merge |-> FALSE]

\* BucketKDTree::totalPoints
BucketKDTree_totalPoints(rt) == rt.m_totalPoints

\* BucketKDTree::BucketKDTree and BucketKDTree::clear: a new empty leaf.
BucketKDTree_clear(rt) == BucketKDTreeNode(<<>>)

\* The points held in the m_points of the nodes of a subtree.
RECURSIVE BKDPoints(_)
BKDPoints(node) ==
    IF node = NULL THEN {}
    ELSE {node.m_points[i] : i \in 1 .. Len(node.m_points)}
             \cup BKDPoints(node.m_leftChild) \cup BKDPoints(node.m_rightChild)


(***************************************************************************)
(* hashstruct.hpp                                                          *)
(***************************************************************************)
\* Bucket: the points of one hash value and, in step, their coordinate sums.
Bucket(points, pointSums) == [points |-> points, pointSums |-> pointSums]

\* A map (boost::unordered_map) is a function from the keys it holds.
EmptyMap == <<>>
MapHas(map, key) == key \in DOMAIN map
MapPut(map, key, value) ==
    [k \in (DOMAIN map) \cup {key} |-> IF k = key THEN value ELSE map[k]]

\* A faulty removeElementAtIndex: the last element is dropped without the swap.
removeElementWithoutSwap(vec, index) == SubSeq(vec, 1, Len(vec) - 1)

\* removeElementAtIndex: swap the element with the last one, drop the last.
\* 'index' counts from 0 as in the source.
removeElementAtIndex(vec, index) ==
    LET n == Len(vec)
        swapped == [vec EXCEPT ![index + 1] = vec[n], ![n] = vec[index + 1]]
    IN  SubSeq(swapped, 1, n - 1)

\* HashStructure::getPointIndexInBucket: the scan from 'index' on; -1 when
\* the point is not in the bucket.
RECURSIVE BucketScan(_, _, _, _)
BucketScan(point, pSum, bucket, index) ==
    IF index >= Len(bucket.points) THEN -1
    ELSE IF pSum = bucket.pointSums[index + 1]
            /\ PointEquals(point, bucket.points[index + 1])
    THEN index
    ELSE BucketScan(point, pSum, bucket, index + 1)

getPointIndexInBucket(point, bucket) ==
    BucketScan(point, PointSum(point), bucket, 0)

\* A faulty insert: a point that collides with stored ones takes the
\* bucket for itself.
HashStructure_insertAlone(map, searchKey, point) ==
    IF MapHas(map, searchKey) /\ getPointIndexInBucket(point, map[searchKey]) # -1
    THEN [hashMap |-> map, ret |-> FALSE]
    ELSE [hashMap |-> MapPut(map, searchKey,
                         Bucket(<<point>>, <<PointSum(point)>>)),
          ret |-> TRUE]

\* HashStructure::insert, with searchKey = hashPoint(point).
HashStructure_insert(map, searchKey, point) ==
    IF MapHas(map, searchKey)
    THEN LET bucket == map[searchKey]
         IN  IF getPointIndexInBucket(point, bucket) # -1
             THEN [hashMap |-> map, ret |-> FALSE]
             ELSE [hashMap |-> MapPut(map, searchKey,
                                  Bucket(Append(bucket.points, point),
                                         Append(bucket.pointSums, PointSum(point)))),
                   ret |-> TRUE]
    ELSE [hashMap |-> MapPut(map, searchKey,
                         Bucket(<<point>>, <<PointSum(point)>>)),
          ret |-> TRUE]

\* A faulty remove: the point leaves the bucket, its sum stays.
HashStructure_removePointOnly(map, searchKey, point) ==
    IF MapHas(map, searchKey)
    THEN LET bucket == map[searchKey]
             index == getPointIndexInBucket(point, bucket)
         IN  IF index # -1
             THEN [hashMap |-> MapPut(map, searchKey,
                                  Bucket(removeElementAtIndex(bucket.points, index),
                                         bucket.pointSums)),
                   ret |-> TRUE]
             ELSE [hashMap |-> map, ret |-> FALSE]
    ELSE [hashMap |-> map, ret |-> FALSE]

\* HashStructure::remove, with searchKey = hashPoint(point) (the key that
\* getContainingBucket looks up).
HashStructure_remove(map, searchKey, point) ==
    IF MapHas(map, searchKey)
    THEN LET bucket == map[searchKey]
             index == getPointIndexInBucket(point, bucket)
         IN  IF index # -1
             THEN [hashMap |-> MapPut(map, searchKey,
                                  Bucket(removeElementAtIndex(bucket.points, index),
                                         removeElementAtIndex(bucket.pointSums, index))),
                   ret |-> TRUE]
             ELSE [hashMap |-> map, ret |-> FALSE]
    ELSE [hashMap |-> map, ret |-> FALSE]

\* HashStructure::query
HashStructure_query(map, searchKey, point) ==
    MapHas(map, searchKey) /\ getPointIndexInBucket(point, map[searchKey]) # -1

\* HashStructure::clear
HashStructure_clear(map) == EmptyMap

RECURSIVE SumOverKeys(_, _)
SumOverKeys(map, keys) ==
    IF keys = {} THEN 0
    ELSE LET k == CHOOSE x \in keys : TRUE
         IN  Len(map[k].points) + SumOverKeys(map, keys \ {k})

\* HashStructure::numPointsStored and numBuckets
numPointsStored(map) == SumOverKeys(map, DOMAIN map)
HashStructure_numBuckets(map) == Cardinality(DOMAIN map)

\* HashStructure::averagePointsPerBucket: numPointsStored() / numBuckets(),
\* a division of two unsigned int.  With no bucket it divides by zero, which is
\* undefined: the outcomes are a fault of the process (the trap of an integer
\* division) or a result of 0 (a division instruction that does not trap).
DivisionByZero ==
    {[fault |-> TRUE, value |-> 0], [fault |-> FALSE, value |-> 0]}

averagePointsPerBucket(map) ==
    IF HashStructure_numBuckets(map) = 0
    THEN DivisionByZero
    ELSE {[fault |-> FALSE,
           value |-> numPointsStored(map) \div HashStructure_numBuckets(map)]}

\* std::min
StdMin(a, b) == IF b < a THEN b ELSE a

\* HashStructure::minPointsPerBucket: the loop over the buckets from minCount.
RECURSIVE MinCountScan(_, _, _)
MinCountScan(map, keys, minCount) ==
    IF keys = {} THEN minCount
    ELSE LET k == CHOOSE x \in keys : TRUE
         IN  MinCountScan(map, keys \ {k}, StdMin(minCount, Len(map[k].points)))

minPointsPerBucket(map) == MinCountScan(map, DOMAIN map, 0)

\* The points held in the buckets of a map.
HashPoints(map) ==
    UNION {{map[k].points[i] : i \in 1 .. Len(map[k].points)} : k \in DOMAIN map}

(***************************************************************************)
(* pyramidtree.hpp (src/unnamed/part_003)                                  *)
(***************************************************************************)
\* 1 / EPSILON as a pure number: compare() applied to normalised values.
EpsilonInverse == 10000000
\* MAX_BUCKET_NUMBER = 30000000000, counted in units of 1953125 (5^9): the
\* hash values below are whole numbers of that unit for every boundary whose
\* widths divide 2^7 * 3 * 5 grid units.
MAX_BUCKET_NUMBER == 15360

\* PyramidTree::PyramidTree: m_bucketInterval = floor(MAX_BUCKET_NUMBER / (D * 2))
m_bucketInterval == MAX_BUCKET_NUMBER \div (D * 2)

\* Order and tolerant comparison of two quotients (positive denominators).
RealLT(a, b) == a.num * b.den < b.num * a.den
compareReal(t, base) ==
    IF Abs(t.num * base.den - base.num * t.den) * EpsilonInverse < t.den * base.den
    THEN 0
    ELSE IF RealLT(t, base) THEN -1
    ELSE 1

\* The conversion of a quotient to HashType (long): truncation toward zero.
Truncate(num, den) ==
    IF num >= 0 THEN num \div den ELSE -((-num) \div den)

\* PyramidTree::normaliseCoord (max > min)
normaliseCoord(coord, min, max) == Real(coord - min, max - min)

\* PyramidTree::pyramidHeight: |0.5 - normaliseCoord(coord, min, max)|
pyramidHeight(coord, min, max) ==
    LET n == normaliseCoord(coord, min, max)
    IN  Real(Abs(n.den - 2 * n.num), 2 * n.den)

\* A faulty scan: a later dimension of equal height replaces the choice.
RECURSIVE DMaxScanLast(_, _, _, _, _)
DMaxScanLast(p, bnd, d, dMax, dMaxHeight) ==
    IF d >= D THEN [dMax |-> dMax, dMaxHeight |-> dMaxHeight]
    ELSE LET currentHeight == pyramidHeight(p[d], bnd[d].min, bnd[d].max)
         IN  IF compareReal(currentHeight, Real(1, 2)) = 0
             THEN DMaxScanLast(p, bnd, d + 1, dMax, dMaxHeight)
             ELSE IF ~RealLT(currentHeight, dMaxHeight)
             THEN DMaxScanLast(p, bnd, d + 1, d, currentHeight)
             ELSE DMaxScanLast(p, bnd, d + 1, dMax, dMaxHeight)

\* PyramidTree::hashPoint: the loop over d .. D-1 with BOUNDARY_VALUE_HACK.
RECURSIVE DMaxScan(_, _, _, _, _)
DMaxScan(p, bnd, d, dMax, dMaxHeight) ==
    IF d >= D THEN [dMax |-> dMax, dMaxHeight |-> dMaxHeight]
    ELSE LET currentHeight == pyramidHeight(p[d], bnd[d].min, bnd[d].max)
         IN  IF compareReal(currentHeight, Real(1, 2)) = 0
             THEN DMaxScan(p, bnd, d + 1, dMax, dMaxHeight)
             ELSE IF RealLT(dMaxHeight, currentHeight)
             THEN DMaxScan(p, bnd, d + 1, d, currentHeight)
             ELSE DMaxScan(p, bnd, d + 1, dMax, dMaxHeight)

PyramidTree_hashPoint(p, bnd) ==
    LET s == DMaxScan(p, bnd, 1, 0,
                      pyramidHeight(p[0], bnd[0].min, bnd[0].max))
        normalisedCoord == normaliseCoord(p[s.dMax], bnd[s.dMax].min,
                                          bnd[s.dMax].max)
        index == IF RealLT(normalisedCoord, Real(1, 2))
                 THEN s.dMax ELSE s.dMax + D
    IN  Truncate((index * s.dMaxHeight.den + s.dMaxHeight.num) * m_bucketInterval,
                 s.dMaxHeight.den)

(***************************************************************************)
(* multigrid.hpp                                                           *)
(***************************************************************************)

\* MultigridNode(): an empty leaf.  pointIndices count from 0.
MultigridNode(pointIndices) ==
    [isLeaf |-> TRUE, pointIndices |-> pointIndices, children |-> NULL]

\* Multigrid::hashPoint: normaliseCoord(p[d], min, max) * m_intervalsPerDimension
\* converted to HashType.  Reading coordinate d >= D is outside the arrays of
\* the point and of the boundary.
Multigrid_hashPoint(p, d, bnd) ==
    Truncate((p[d] - bnd[d].min) * m_intervalsPerDimension,
             bnd[d].max - bnd[d].min)

\* The scan of a leaf for a point equal to p: the position (from 0) of the
\* first index whose slot of m_points equals p, or -1.
RECURSIVE LeafScan(_, _, _, _)
LeafScan(p, pointIndices, points, i) ==
    IF i >= Len(pointIndices) THEN -1
    ELSE IF PointEquals(p, points[pointIndices[i + 1] + 1]) THEN i
    ELSE LeafScan(p, pointIndices, points, i + 1)

\* MultigridNode::removePoint: erase(std::remove(...), end) drops every
\* occurrence of pointIndex.
MultigridNode_removePoint(node, pointIndex) ==
    [node EXCEPT !.pointIndices = SelectSeq(@, LAMBDA x : x # pointIndex)]

\* Multigrid::insertIntoBucket.  st carries the members the call changes:
\* [m_points, m_unusedIndices]; the result is the bucket as it is after the
\* call, those members, and the value returned.
RECURSIVE Multigrid_insertIntoBucket(_, _, _, _, _)
RECURSIVE RedistributeInto(_, _, _, _, _, _)
Multigrid_insertIntoBucket(p, currentDim, currentBucket, st, bnd) ==
    IF currentBucket.isLeaf
    THEN IF Len(currentBucket.pointIndices) < m_bucketSize \/ currentDim < D
         THEN IF LeafScan(p, currentBucket.pointIndices, st.m_points, 0) # -1
              THEN [bucket |-> currentBucket, m_points |-> st.m_points,
                    m_unusedIndices |-> st.m_unusedIndices, ret |-> FALSE]
              ELSE IF st.m_unusedIndices # <<>>
              THEN LET n == Len(st.m_unusedIndices)
                       pointIndex == st.m_unusedIndices[n]
                   IN  [bucket |-> [currentBucket EXCEPT
                                      !.pointIndices = Append(@, pointIndex)],
                        m_points |-> st.m_points,
                        m_unusedIndices |-> SubSeq(st.m_unusedIndices, 1, n - 1),
                        ret |-> TRUE]
              ELSE LET pointIndex == Len(st.m_points)
                   IN  [bucket |-> [currentBucket EXCEPT
                                      !.pointIndices = Append(@, pointIndex)],
                        m_points |-> Append(st.m_points, p),
                        m_unusedIndices |-> st.m_unusedIndices,
                        ret |-> TRUE]
         ELSE \* the leaf becomes a non-leaf; its points are inserted again
              LET emptied == [currentBucket EXCEPT !.isLeaf = FALSE,
                                                   !.children = EmptyMap]
                  moved == RedistributeInto(currentBucket.pointIndices, 0,
                                            currentDim, emptied, st, bnd)
                  cleared == [moved.bucket EXCEPT !.pointIndices = <<>>]
                  last == Multigrid_insertIntoBucket(p, currentDim, cleared,
                              [m_points |-> moved.m_points,
                               m_unusedIndices |-> moved.m_unusedIndices], bnd)
              IN  [bucket |-> last.bucket, m_points |-> last.m_points,
                   m_unusedIndices |-> last.m_unusedIndices, ret |-> TRUE]
    ELSE LET pyVal == Multigrid_hashPoint(p, currentDim, bnd)
         IN  IF ~MapHas(currentBucket.children, pyVal)
             THEN [bucket |-> [currentBucket EXCEPT
                                 !.children = MapPut(@, pyVal,
                                     MultigridNode(<<Len(st.m_points)>>))],
                   m_points |-> Append(st.m_points, p),
                   m_unusedIndices |-> st.m_unusedIndices,
                   ret |-> TRUE]
             ELSE LET r == Multigrid_insertIntoBucket(p, currentDim + 1,
                               currentBucket.children[pyVal], st, bnd)
                  IN  [bucket |-> [currentBucket EXCEPT
                                     !.children = MapPut(@, pyVal, r.bucket)],
                       m_points |-> r.m_points,
                       m_unusedIndices |-> r.m_unusedIndices,
                       ret |-> r.ret]

\* The loop of the split branch: insertIntoBucket(m_points[pointIndices[i]],
\* currentDim, currentBucket) for i = 0 .. numPoints() - 1.
RedistributeInto(pointIndices, i, currentDim, currentBucket, st, bnd) ==
    IF i >= Len(pointIndices)
    THEN [bucket |-> currentBucket, m_points |-> st.m_points,
          m_unusedIndices |-> st.m_unusedIndices]
    ELSE LET r == Multigrid_insertIntoBucket(st.m_points[pointIndices[i + 1] + 1],
                      currentDim, currentBucket, st, bnd)
         IN  RedistributeInto(pointIndices, i + 1, currentDim, r.bucket,
                 [m_points |-> r.m_points,
                  m_unusedIndices |-> r.m_unusedIndices], bnd)

\* Multigrid::insert.  mg is the index: [boundary, m_rootBuckets, m_points,
\* m_unusedIndices].
Multigrid_insert(mg, p) ==
    LET pyVal == Multigrid_hashPoint(p, 0, mg.boundary)
    IN  IF ~MapHas(mg.m_rootBuckets, pyVal)
        THEN [mg |-> [mg EXCEPT
                        !.m_points = Append(@, p),
                        !.m_rootBuckets = MapPut(@, pyVal,
                            MultigridNode(<<Len(mg.m_points)>>))],
              ret |-> TRUE]
        ELSE LET r == Multigrid_insertIntoBucket(p, 1, mg.m_rootBuckets[pyVal],
                          [m_points |-> mg.m_points,
                           m_unusedIndices |-> mg.m_unusedIndices],
                          mg.boundary)
             IN  [mg |-> [mg EXCEPT
                            !.m_rootBuckets = MapPut(@, pyVal, r.bucket),
                            !.m_points = r.m_points,
                            !.m_unusedIndices = r.m_unusedIndices],
                  ret |-> r.ret]

\* Multigrid::query: the walk from currentBucket (NULL when the map has no
\* bucket for the hash value).
RECURSIVE Multigrid_queryFrom(_, _, _, _, _)
Multigrid_queryFrom(map, pyVal, p, currentDim, mg) ==
    IF ~MapHas(map, pyVal) THEN FALSE
    ELSE LET currentBucket == map[pyVal]
         IN  IF currentBucket.isLeaf
             THEN LeafScan(p, currentBucket.pointIndices, mg.m_points, 0) # -1
             ELSE Multigrid_queryFrom(currentBucket.children,
                      Multigrid_hashPoint(p, currentDim, mg.boundary),
                      p, currentDim + 1, mg)

Multigrid_query(mg, p) ==
    Multigrid_queryFrom(mg.m_rootBuckets,
                        Multigrid_hashPoint(p, 0, mg.boundary), p, 1, mg)

\* Multigrid::remove: the walk from currentBucket; returns the map with the
\* leaf updated, the index pushed on m_unusedIndices (found) and the result.
RECURSIVE Multigrid_removeFrom(_, _, _, _, _)
Multigrid_removeFrom(map, pyVal, p, currentDim, mg) ==
    IF ~MapHas(map, pyVal)
    THEN [map |-> map, found |-> FALSE, pointIndex |-> -1]
    ELSE LET currentBucket == map[pyVal]
         IN  IF currentBucket.isLeaf
             THEN LET index == LeafScan(p, currentBucket.pointIndices,
                                        mg.m_points, 0)
                  IN  IF index # -1
                      THEN LET pointIndex == currentBucket.pointIndices[index + 1]
                           IN  [map |-> MapPut(map, pyVal,
                                    MultigridNode_removePoint(currentBucket,
                                                              pointIndex)),
                                found |-> TRUE, pointIndex |-> pointIndex]
                      ELSE [map |-> map, found |-> FALSE, pointIndex |-> -1]
             ELSE LET r == Multigrid_removeFrom(currentBucket.children,
                               Multigrid_hashPoint(p, currentDim, mg.boundary),
                               p, currentDim + 1, mg)
                  IN  [map |-> MapPut(map, pyVal,
                           [currentBucket EXCEPT !.children = r.map]),
                       found |-> r.found, pointIndex |-> r.pointIndex]

Multigrid_remove(mg, p) ==
    LET r == Multigrid_removeFrom(mg.m_rootBuckets,
                 Multigrid_hashPoint(p, 0, mg.boundary), p, 1, mg)
    IN  IF r.found
        THEN [mg |-> [mg EXCEPT
                        !.m_rootBuckets = r.map,
                        !.m_unusedIndices = Append(@, r.pointIndex)],
              ret |-> TRUE]
        ELSE [mg |-> mg, ret |-> FALSE]

\* A faulty clear: m_rootBuckets is not reset.
Multigrid_clearBoundaryOnly(mg, newBoundary) ==
    [mg EXCEPT !.boundary = newBoundary]

\* Multigrid::clear
Multigrid_clear(mg, newBoundary) ==
    [mg EXCEPT !.boundary = newBoundary, !.m_rootBuckets = EmptyMap]

\* Multigrid::Multigrid
Multigrid(bnd) ==
    [boundary |-> bnd, m_rootBuckets |-> EmptyMap, m_points |-> <<>>,
     m_unusedIndices |-> <<>>]

\* Multigrid::numPoints
Multigrid_numPoints(mg) == Len(mg.m_points)

\* Multigrid::numBuckets(map)
RECURSIVE NumBucketsOver(_, _)
NumBucketsOver(map, keys) ==
    IF keys = {} THEN 0
    ELSE LET k == CHOOSE x \in keys : TRUE
         IN  (IF map[k].isLeaf THEN 1
              ELSE NumBucketsOver(map[k].children, DOMAIN map[k].children))
             + NumBucketsOver(map, keys \ {k})

Multigrid_numBuckets(mg) ==
    NumBucketsOver(mg.m_rootBuckets, DOMAIN mg.m_rootBuckets)


(***************************************************************************)
(* The harness: one action per public call.                                *)
(***************************************************************************)
NoArg == <<>>

\* The state after constructing the four indexes.
\* The outcome of a call that returns no number.
NoOutcome == [fault |-> FALSE, value |-> 0]

\* A number returned by an introspection method.
Returned(n) == [fault |-> FALSE, value |-> n]

Constructed ==
    /\ structure \in Structures
    /\ root = NULL
    /\ m_root = BucketKDTreeNode(<<>>)
    /\ hashMap = EmptyMap
    /\ m_boundary = Boundary(0, 2 * EPSILON)
    /\ boundary = Boundary(0, EPSILON * MaxCoord)
    /\ m_rootBuckets = EmptyMap
    /\ m_points = <<>>
    /\ m_unusedIndices = <<>>
    /\ op = "new"
    /\ arg = NoArg
    /\ ret = FALSE
    /\ outcome = NoOutcome

\* The harness that calls the operations in any order runs no test.
Init ==
    /\ testPhase = "none"
    /\ Constructed
    /\ testPoints = <<>>
    /\ testIndex = 0
    /\ testResult = "none"

Call(name, p, result) ==
    /\ op' = name
    /\ arg' = p
    /\ ret' = result
    /\ outcome' = NoOutcome
    /\ UNCHANGED <<structure, testVars>>

\* A call of an introspection method, which takes no argument and returns a
\* number: r is its outcome, and ret tells whether the call returned at all.
CallValue(name, r) ==
    /\ op' = name
    /\ arg' = NoArg
    /\ ret' = ~r.fault
    /\ outcome' = r
    /\ UNCHANGED <<structure, testVars>>

------------------------------------------------------------------------------
KDTreeInsert(p) ==
    /\ structure = "KDTree"
    /\ LET r == KDTree_insert(root, p, 0)
       IN  /\ KDSize(r.node) <= MaxNodes
           /\ root' = r.node
           /\ Call("insert", p, r.ret)
    /\ UNCHANGED <<bkdVars, pyrVars, mgVars>>

KDTreeRemove(p) ==
    /\ structure = "KDTree"
    /\ LET r == KDTree_remove(root, p)
       IN  /\ root' = r.root
           /\ Call("remove", p, r.ret)
    /\ UNCHANGED <<bkdVars, pyrVars, mgVars>>

KDTreeQuery(p) ==
    /\ structure = "KDTree"
    /\ Call("query", p, KDTree_query(root, p, 0))
    /\ UNCHANGED <<kdVars, bkdVars, pyrVars, mgVars>>

KDTreeClear ==
    /\ structure = "KDTree"
    /\ root' = KDTree_clear(root)
    /\ Call("clear", NoArg, FALSE)
    /\ UNCHANGED <<bkdVars, pyrVars, mgVars>>

NextKD ==
    \/ \E p \in KDTreePoints : KDTreeInsert(p)
    \/ \E p \in KDTreePoints : KDTreeRemove(p)
    \/ \E p \in KDTreePoints : KDTreeQuery(p)
    \/ KDTreeClear

InitKD == Init /\ structure = "KDTree"
SpecKD == InitKD /\ [][NextKD]_vars

------------------------------------------------------------------------------
\* The harness hands BucketKDTree new points in row-major order: a point not
\* in the tree is inserted only when it comes after every point in the tree.
InOrder(p) ==
    \/ p \in BKDPoints(m_root)
    \/ \A q \in BKDPoints(m_root) : IndexOf(q) < IndexOf(p)

BucketKDTreeInsert(p) ==
    /\ structure = "BucketKDTree"
    /\ InOrder(p)
    /\ LET r == BucketKDTree_insert(m_root, p)
       IN  /\ m_root' = r.node
           /\ Call("insert", p, r.ret)
    /\ UNCHANGED <<kdVars, pyrVars, mgVars>>

BucketKDTreeRemove(p) ==
    /\ structure = "BucketKDTree"
    /\ LET r == BucketKDTree_remove(m_root, p)
       IN  /\ m_root' = r.node
           /\ Call("remove", p, r.ret)
    /\ UNCHANGED <<kdVars, pyrVars, mgVars>>

BucketKDTreeQuery(p) ==
    /\ structure = "BucketKDTree"
    /\ Call("query", p, BucketKDTree_query(m_root, p))
    /\ UNCHANGED <<kdVars, bkdVars, pyrVars, mgVars>>

BucketKDTreeClear ==
    /\ structure = "BucketKDTree"
    /\ m_root' = BucketKDTree_clear(m_root)
    /\ Call("clear", NoArg, FALSE)
    /\ UNCHANGED <<kdVars, pyrVars, mgVars>>

NextBKD ==
    \/ \E p \in BucketKDTreePoints : BucketKDTreeInsert(p)
    \/ \E p \in BucketKDTreePoints : BucketKDTreeRemove(p)
    \/ \E p \in BucketKDTreePoints : BucketKDTreeQuery(p)
    \/ BucketKDTreeClear

InitBKD == Init /\ structure = "BucketKDTree"
SpecBKD == InitBKD /\ [][NextBKD]_vars

------------------------------------------------------------------------------
\* A process that faulted makes no further call.
Faulted == outcome.fault

PyramidTreeInsert(p) ==
    /\ structure = "PyramidTree"
    /\ ~Faulted
    /\ LET r == HashStructure_insert(hashMap,
                    PyramidTree_hashPoint(p, m_boundary), p)
       IN  /\ hashMap' = r.hashMap
           /\ Call("insert", p, r.ret)
    /\ UNCHANGED <<kdVars, bkdVars, m_boundary, mgVars>>

PyramidTreeRemove(p) ==
    /\ structure = "PyramidTree"
    /\ ~Faulted
    /\ LET r == HashStructure_remove(hashMap,
                    PyramidTree_hashPoint(p, m_boundary), p)
       IN  /\ hashMap' = r.hashMap
           /\ Call("remove", p, r.ret)
    /\ UNCHANGED <<kdVars, bkdVars, m_boundary, mgVars>>

PyramidTreeQuery(p) ==
    /\ structure = "PyramidTree"
    /\ ~Faulted
    /\ Call("query", p,
            HashStructure_query(hashMap, PyramidTree_hashPoint(p, m_boundary), p))
    /\ UNCHANGED <<kdVars, bkdVars, pyrVars, mgVars>>

\* PyramidTree::clear(newBoundary)
PyramidTreeClear(newBoundary) ==
    /\ structure = "PyramidTree"
    /\ ~Faulted
    /\ hashMap' = HashStructure_clear(hashMap)
    /\ m_boundary' = newBoundary
    /\ Call("clear", NoArg, FALSE)
    /\ UNCHANGED <<kdVars, bkdVars, mgVars>>

\* HashStructure::averagePointsPerBucket()
PyramidTreeAveragePointsPerBucket ==
    /\ structure = "PyramidTree"
    /\ ~Faulted
    /\ \E r \in averagePointsPerBucket(hashMap) :
          CallValue("averagePointsPerBucket", r)
    /\ UNCHANGED <<kdVars, bkdVars, pyrVars, mgVars>>

\* HashStructure::minPointsPerBucket()
PyramidTreeMinPointsPerBucket ==
    /\ structure = "PyramidTree"
    /\ ~Faulted
    /\ CallValue("minPointsPerBucket", Returned(minPointsPerBucket(hashMap)))
    /\ UNCHANGED <<kdVars, bkdVars, pyrVars, mgVars>>

NextPyr ==
    \/ \E p \in PyramidTreePoints : PyramidTreeInsert(p)
    \/ \E p \in PyramidTreePoints : PyramidTreeRemove(p)
    \/ \E p \in PyramidTreePoints : PyramidTreeQuery(p)
    \/ \E b \in PyramidTreeBoundaries : PyramidTreeClear(b)
    \/ PyramidTreeAveragePointsPerBucket
    \/ PyramidTreeMinPointsPerBucket

InitPyr == Init /\ structure = "PyramidTree"
SpecPyr == InitPyr /\ [][NextPyr]_vars

------------------------------------------------------------------------------
\* The Multigrid as one record of its members.
TheMultigrid ==
    [boundary |-> boundary, m_rootBuckets |-> m_rootBuckets,
     m_points |-> m_points, m_unusedIndices |-> m_unusedIndices]

SetMultigrid(mg) ==
    /\ boundary' = mg.boundary
    /\ m_rootBuckets' = mg.m_rootBuckets
    /\ m_points' = mg.m_points
    /\ m_unusedIndices' = mg.m_unusedIndices

MultigridInsert(p) ==
    /\ structure = "Multigrid"
    /\ LET r == Multigrid_insert(TheMultigrid, p)
       IN  /\ Len(r.mg.m_points) <= MaxSlots
           /\ SetMultigrid(r.mg)
           /\ Call("insert", p, r.ret)
    /\ UNCHANGED <<kdVars, bkdVars, pyrVars>>

MultigridRemove(p) ==
    /\ structure = "Multigrid"
    /\ LET r == Multigrid_remove(TheMultigrid, p)
       IN  /\ SetMultigrid(r.mg)
           /\ Call("remove", p, r.ret)
    /\ UNCHANGED <<kdVars, bkdVars, pyrVars>>

MultigridQuery(p) ==
    /\ structure = "Multigrid"
    /\ Call("query", p, Multigrid_query(TheMultigrid, p))
    /\ UNCHANGED <<kdVars, bkdVars, pyrVars, mgVars>>

\* Multigrid::clear(newBoundary)
MultigridClear(newBoundary) ==
    /\ structure = "Multigrid"
    /\ SetMultigrid(Multigrid_clear(TheMultigrid, newBoundary))
    /\ Call("clear", NoArg, FALSE)
    /\ UNCHANGED <<kdVars, bkdVars, pyrVars>>

NextMG ==
    \/ \E p \in MultigridPoints : MultigridInsert(p)
    \/ \E p \in MultigridPoints : MultigridRemove(p)
    \/ \E p \in MultigridPoints : MultigridQuery(p)
    \/ \E b \in MultigridBoundaries : MultigridClear(b)

InitMG == Init /\ structure = "Multigrid"
SpecMG == InitMG /\ [][NextMG]_vars

------------------------------------------------------------------------------
\* The harness over whichever index it was started with.
Next ==
    \/ NextKD
    \/ NextBKD
    \/ NextPyr
    \/ NextMG

Spec == Init /\ [][Next]_vars

------------------------------------------------------------------------------
\* The driven index as one record of the members of the four indexes, and
\* the public operations dispatched on the type the harness was started with
\* (STRUCT_TYPE of test_structures.cpp).
TheIndex ==
    [root |-> root, m_root |-> m_root, hashMap |-> hashMap,
     m_boundary |-> m_boundary, boundary |-> boundary,
     m_rootBuckets |-> m_rootBuckets, m_points |-> m_points,
     m_unusedIndices |-> m_unusedIndices]

MultigridOf(ix) ==
    [boundary |-> ix.boundary, m_rootBuckets |-> ix.m_rootBuckets,
     m_points |-> ix.m_points, m_unusedIndices |-> ix.m_unusedIndices]

WithMultigrid(ix, mg) ==
    [ix EXCEPT !.boundary = mg.boundary, !.m_rootBuckets = mg.m_rootBuckets,
               !.m_points = mg.m_points, !.m_unusedIndices = mg.m_unusedIndices]

SetIndex(ix) ==
    /\ root' = ix.root
    /\ m_root' = ix.m_root
    /\ hashMap' = ix.hashMap
    /\ m_boundary' = ix.m_boundary
    /\ boundary' = ix.boundary
    /\ m_rootBuckets' = ix.m_rootBuckets
    /\ m_points' = ix.m_points
    /\ m_unusedIndices' = ix.m_unusedIndices

StructInsert(s, ix, p) ==
    CASE s = "KDTree" ->
           LET r == KDTree_insert(ix.root, p, 0)
           IN  [ix |-> [ix EXCEPT !.root = r.node], ret |-> r.ret]
      [] s = "BucketKDTree" ->
           LET r == BucketKDTree_insert(ix.m_root, p)
           IN  [ix |-> [ix EXCEPT !.m_root = r.node], ret |-> r.ret]
      [] s = "PyramidTree" ->
           LET r == HashStructure_insert(ix.hashMap,
                        PyramidTree_hashPoint(p, ix.m_boundary), p)
           IN  [ix |-> [ix EXCEPT !.hashMap = r.hashMap], ret |-> r.ret]
      [] s = "Multigrid" ->
           LET r == Multigrid_insert(MultigridOf(ix), p)
           IN  [ix |-> WithMultigrid(ix, r.mg), ret |-> r.ret]

StructRemove(s, ix, p) ==
    CASE s = "KDTree" ->
           LET r == KDTree_remove(ix.root, p)
           IN  [ix |-> [ix EXCEPT !.root = r.root], ret |-> r.ret]
      [] s = "BucketKDTree" ->
           LET r == BucketKDTree_remove(ix.m_root, p)
           IN  [ix |-> [ix EXCEPT !.m_root = r.node], ret |-> r.ret]
      [] s = "PyramidTree" ->
           LET r == HashStructure_remove(ix.hashMap,
                        PyramidTree_hashPoint(p, ix.m_boundary), p)
           IN  [ix |-> [ix EXCEPT !.hashMap = r.hashMap], ret |-> r.ret]
      [] s = "Multigrid" ->
           LET r == Multigrid_remove(MultigridOf(ix), p)
           IN  [ix |-> WithMultigrid(ix, r.mg), ret |-> r.ret]

StructQuery(s, ix, p) ==
    CASE s = "KDTree" -> KDTree_query(ix.root, p, 0)
      [] s = "BucketKDTree" -> BucketKDTree_query(ix.m_root, p)
      [] s = "PyramidTree" ->
           HashStructure_query(ix.hashMap,
                               PyramidTree_hashPoint(p, ix.m_boundary), p)
      [] s = "Multigrid" -> Multigrid_query(MultigridOf(ix), p)

\* The points the harness draws from for the index it drives.
PointsOf(s) ==
    CASE s = "KDTree" -> KDTreePoints
      [] s = "BucketKDTree" -> BucketKDTreePoints
      [] s = "PyramidTree" -> PyramidTreePoints
      [] s = "Multigrid" -> MultigridPoints

------------------------------------------------------------------------------
\* test_structures.cpp: testStructureOperations(structure, points), one
\* action per iteration of each of its four loops.  The datasets hold
\* pairwise-distinct points: every ordering of up to MaxShuffled points, and
\* every subset of the points in row-major order.
IsAscending(seq) ==
    \A k \in 1 .. (Len(seq) - 1) : IndexOf(seq[k]) < IndexOf(seq[k + 1])

IsInjective(seq) ==
    \A j, k \in 1 .. Len(seq) : j # k => seq[j] # seq[k]

RECURSIVE AscendingSeqs(_, _)
AscendingSeqs(n, from) ==
    IF from >= n THEN {<<>>}
    ELSE LET rest == AscendingSeqs(n, from + 1)
         IN  rest \cup {<<PointAt(from)>> \o q : q \in rest}

Datasets(s) ==
    {q \in UNION {[1 .. n -> PointsOf(s)] : n \in 1 .. MaxShuffled} : IsInjective(q)}
    \cup AscendingSeqs(Cardinality(PointsOf(s)), 0)

InitTest ==
    /\ testPhase = "empty"
    /\ Constructed
    /\ testPoints \in Datasets(structure)
    /\ testIndex = 0
    /\ testResult = "running"

\* "return false": the test stops at its first failure.
TestFail ==
    /\ testResult' = "failed"
    /\ UNCHANGED <<testPhase, testIndex>>

\* i++ and, at points.size(), the loop that follows (or "return true").
TestAdvance(nextPhase) ==
    IF testIndex + 1 < Len(testPoints)
    THEN /\ testIndex' = testIndex + 1
         /\ UNCHANGED <<testPhase, testResult>>
    ELSE /\ testIndex' = 0
         /\ testPhase' = nextPhase
         /\ testResult' = IF nextPhase = "done" THEN "passed" ELSE testResult

TestRunning(phase) ==
    /\ testResult = "running"
    /\ testPhase = phase
    /\ testIndex < Len(testPoints)

\* "Ensure structure is entirely empty"
TestEmptyQuery ==
    /\ TestRunning("empty")
    /\ IF StructQuery(structure, TheIndex, testPoints[testIndex + 1])
       THEN TestFail
       ELSE TestAdvance("insert")
    /\ UNCHANGED <<structure, kdVars, bkdVars, pyrVars, mgVars, callVars, testPoints>>

\* "Test insertions"
TestInsert ==
    /\ TestRunning("insert")
    /\ SetIndex(StructInsert(structure, TheIndex, testPoints[testIndex + 1]).ix)
    /\ TestAdvance("query")
    /\ UNCHANGED <<structure, callVars, testPoints>>

\* "Test queries"
TestQuery ==
    /\ TestRunning("query")
    /\ IF ~StructQuery(structure, TheIndex, testPoints[testIndex + 1])
       THEN TestFail
       ELSE TestAdvance("remove")
    /\ UNCHANGED <<structure, kdVars, bkdVars, pyrVars, mgVars, callVars, testPoints>>

\* "Test removals"
TestRemove ==
    /\ TestRunning("remove")
    /\ LET p == testPoints[testIndex + 1]
           r == StructRemove(structure, TheIndex, p)
       IN  /\ SetIndex(r.ix)
           /\ IF r.ret
              THEN IF StructQuery(structure, r.ix, p)
                   THEN TestFail
                   ELSE TestAdvance("done")
              ELSE TestFail
    /\ UNCHANGED <<structure, callVars, testPoints>>

NextTest ==
    \/ TestEmptyQuery
    \/ TestInsert
    \/ TestQuery
    \/ TestRemove

SpecTest == InitTest /\ [][NextTest]_vars

(***************************************************************************)
(* KDTree properties (SpecKD).                                             *)
(***************************************************************************)
KDHolds(node, p) == \E q \in KDNodePoints(node) : PointEquals(q, p)

\* C2: KDTree.remove(p) returns false and leaves the tree unchanged whenever
\* no node of the tree holds a point equal to p.
C2_RemoveOfAbsentPointFails ==
    [][(structure = "KDTree" /\ op' = "remove" /\ ~KDHolds(root, arg'))
          => (ret' = FALSE /\ root' = root)]_vars

\* C3: KDTree insert(p) followed immediately by remove(p): the remove returns
\* true and query(p) is false afterwards.
C3_RemoveAfterInsert ==
    [][(structure = "KDTree" /\ op = "insert" /\ op' = "remove" /\ arg' = arg)
          => (ret' = TRUE /\ ~KDTree_query(root', arg', 0))]_vars

\* query(p) is true exactly when some node holds a point equal to p.
KDQueryFindsEveryNode ==
    \A p \in KDTreePoints : KDTree_query(root, p, 0) <=> KDHolds(root, p)

\* insert(p) returns false and changes nothing when query(p) was true;
\* otherwise it returns true and the tree gains exactly one node, holding p.
KDInsertStep ==
    (structure = "KDTree" /\ op' = "insert") =>
        IF KDTree_query(root, arg', 0)
        THEN ret' = FALSE /\ root' = root
        ELSE /\ ret' = TRUE
             /\ KDNodes(root, <<>>) \subseteq KDNodes(root', <<>>)
             /\ \E n \in KDNodes(root', <<>>) :
                   /\ n.point = arg'
                   /\ KDNodes(root', <<>>) = KDNodes(root, <<>>) \cup {n}
                   /\ n \notin KDNodes(root, <<>>)

\* C7: KDTree, in every state reached by inserts and removes: query(p) is
\* true exactly when some node holds a point equal to p, and insert(p)
\* returns false without changing the tree exactly when query(p) was true,
\* otherwise adds exactly one new node holding p and returns true.
C7_QueryAndInsertExact ==
    []KDQueryFindsEveryNode /\ [][KDInsertStep]_vars

\* C7 witness: after removes have restructured the tree, an insert of a stored
\* point was refused in a tree with two levels below the root.
C7_Witness ==
    /\ structure = "KDTree"
    /\ op = "insert" /\ ret = FALSE
    /\ KDSize(root) = MaxNodes
    /\ root.leftChild # NULL /\ root.rightChild # NULL

(***************************************************************************)
(* The bulk round-trip test (SpecTest).                                    *)
(***************************************************************************)
\* C1: bulk round-trip, for each of the four indexes: from an empty index and
\* pairwise-distinct points, every point queries false before insertion;
\* after inserting all of them every point queries true; removing them in
\* insertion order, each remove returns true and the point just removed
\* queries false; after all removals every point queries false and a further
\* remove of any of them returns false.
C1_BulkRoundTrip ==
    /\ testResult # "failed"
    /\ testResult = "passed" =>
          \A k \in 1 .. Len(testPoints) :
             /\ ~StructQuery(structure, TheIndex, testPoints[k])
             /\ ~StructRemove(structure, TheIndex, testPoints[k]).ret

(***************************************************************************)
(* BucketKDTree properties (SpecBKD).                                      *)
(***************************************************************************)
BKDHolds(node, p) == \E q \in BKDPoints(node) : PointEquals(q, p)

\* query(p) is true exactly for the points of the set; totalPoints() is the
\* size of the set.
BKDSetView ==
    /\ \A p \in BucketKDTreePoints :
          BucketKDTree_query(m_root, p) <=> BKDHolds(m_root, p)
    /\ BucketKDTree_totalPoints(m_root) = Cardinality(BKDPoints(m_root))

\* Each call answers and updates as the same call on the set of points.
BKDSetStep ==
    structure = "BucketKDTree" =>
        CASE op' = "insert" ->
               /\ ret' = ~BKDHolds(m_root, arg')
               /\ BKDPoints(m_root') = BKDPoints(m_root) \cup {arg'}
               /\ ret' = FALSE => m_root' = m_root
          [] op' = "remove" ->
               /\ ret' = BKDHolds(m_root, arg')
               /\ BKDPoints(m_root') = BKDPoints(m_root) \ {arg'}
               /\ ret' = FALSE => m_root' = m_root
          [] op' = "query" ->
               /\ ret' = BKDHolds(m_root, arg')
               /\ m_root' = m_root
          [] OTHER -> TRUE

\* C5: BucketKDTree behaves as a mathematical set under any sequence of
\* insert, remove and query, splits and merges included: insert(p) returns
\* true iff p was absent and then p is present, remove(p) returns true iff p
\* was present and then p is absent, a false return changes nothing, query(p)
\* is true iff p is in the set, and totalPoints() is the size of the set.
C5_BucketKDTreeIsSet ==
    []BKDSetView /\ [][BKDSetStep]_vars

\* C5 witness: a remove has just merged the two leaves of a split root: the
\* root is a leaf again and holds points out of the order of their insertion,
\* which only the concatenation done by a merge produces.
C5_Witness ==
    /\ structure = "BucketKDTree"
    /\ op = "remove" /\ ret = TRUE
    /\ m_root.m_isLeaf
    /\ \E j, k \in 1 .. Len(m_root.m_points) :
          j < k /\ IndexOf(m_root.m_points[j]) > IndexOf(m_root.m_points[k])

(***************************************************************************)
(* PyramidTree properties (SpecPyr).                                       *)
(***************************************************************************)
PyrKey(p) == PyramidTree_hashPoint(p, m_boundary)
PyrHolds(map, p) == \E q \in HashPoints(map) : PointEquals(q, p)
OutsideBoundary(p, bnd) == \E d \in Dims : p[d] < bnd[d].min \/ p[d] > bnd[d].max

PyrSetView ==
    /\ \A p \in PyramidTreePoints :
          HashStructure_query(hashMap, PyrKey(p), p) <=> PyrHolds(hashMap, p)
    /\ numPointsStored(hashMap) = Cardinality(HashPoints(hashMap))

PyrSetStep ==
    structure = "PyramidTree" =>
        CASE op' = "insert" ->
               /\ ret' = ~PyrHolds(hashMap, arg')
               /\ HashPoints(hashMap') = HashPoints(hashMap) \cup {arg'}
               /\ ret' = FALSE => hashMap' = hashMap
          [] op' = "remove" ->
               /\ ret' = PyrHolds(hashMap, arg')
               /\ HashPoints(hashMap') = HashPoints(hashMap) \ {arg'}
               /\ ret' = FALSE => hashMap' = hashMap
          [] op' = "query" ->
               /\ ret' = PyrHolds(hashMap, arg')
               /\ hashMap' = hashMap
          [] OTHER -> TRUE

RECURSIVE MultigridIndicesOver(_, _)
MultigridIndicesOver(map, keys) ==
    IF keys = {} THEN {}
    ELSE LET k == CHOOSE x \in keys : TRUE
         IN  (IF map[k].isLeaf
              THEN {map[k].pointIndices[j] : j \in 1 .. Len(map[k].pointIndices)}
              ELSE MultigridIndicesOver(map[k].children, DOMAIN map[k].children))
             \cup MultigridIndicesOver(map, keys \ {k})

\* The points the buckets hold.
MultigridStored(buckets, points) ==
    {points[j + 1] : j \in MultigridIndicesOver(buckets, DOMAIN buckets)}

MGHolds(buckets, points, p) ==
    \E q \in MultigridStored(buckets, points) : PointEquals(q, p)

\* C4: Multigrid behaves as a mathematical set under any sequence of insert
\* and remove (D >= 2, points inside the boundary): insert(p) returns true iff
\* p was not in the set and then p is in it, remove(p) returns true iff p was
\* in the set and then p is not, query(p) is true iff p is in the set; insert(p)
\* followed by query(p) yields true even when the insert reuses a vacated slot.
C4_MultigridIsSet ==
    [][structure = "Multigrid" =>
        CASE op' = "insert" ->
               /\ ret' = ~MGHolds(m_rootBuckets, m_points, arg')
               /\ MultigridStored(m_rootBuckets', m_points')
                     = MultigridStored(m_rootBuckets, m_points) \cup {arg'}
          [] op' = "remove" ->
               /\ ret' = MGHolds(m_rootBuckets, m_points, arg')
               /\ MultigridStored(m_rootBuckets', m_points')
                     = MultigridStored(m_rootBuckets, m_points) \ {arg'}
          [] op' = "query" ->
               /\ ret' = MGHolds(m_rootBuckets, m_points, arg')
               /\ op = "insert" /\ arg = arg' => ret' = TRUE
          [] OTHER -> TRUE]_vars

(***************************************************************************)
(* Properties of the four indexes (Spec).                                  *)
(***************************************************************************)
GridPoints == Universe(Pow(MaxCoord + 1, D))

\* What a caller can observe of an index: the result of every query and the
\* introspection counters.
Counters(s, ix) ==
    CASE s = "KDTree" -> <<>>
      [] s = "BucketKDTree" -> <<BucketKDTree_totalPoints(ix.m_root)>>
      [] s = "PyramidTree" ->
           <<numPointsStored(ix.hashMap), HashStructure_numBuckets(ix.hashMap)>>
      [] s = "Multigrid" ->
           <<Multigrid_numPoints(MultigridOf(ix)),
             Multigrid_numBuckets(MultigridOf(ix))>>

Observable(s, ix) ==
    [queries |-> [p \in GridPoints |-> StructQuery(s, ix, p)],
     counters |-> Counters(s, ix)]

\* C8: insert idempotence, for each of the four indexes and in every reachable
\* state: of two successive insert(p) calls the second returns false and
\* leaves the observable state (all query results, stored counts) unchanged.
C8_InsertIdempotent ==
    [][(op = "insert" /\ op' = "insert" /\ arg' = arg)
          => /\ ret' = FALSE
             /\ Observable(structure, TheIndex)' = Observable(structure, TheIndex)]_vars

\* C9: for each of the four indexes, immediately after construction and
\* immediately after clear, query(p) is false for every point p.
C9_EmptyAfterConstructionAndClear ==
    op \in {"new", "clear"} =>
        \A p \in GridPoints : ~StructQuery(structure, TheIndex, p)

\* C9 witness: clear has just been called on a Multigrid that had stored
\* points (clear leaves m_points as it was).
C9_Witness ==
    /\ structure = "Multigrid"
    /\ op = "clear"
    /\ Len(m_points) > 0

\* The index a constructor call with the boundaries of ix gives.
Fresh(ix) ==
    [root |-> NULL, m_root |-> BucketKDTreeNode(<<>>), hashMap |-> EmptyMap,
     m_boundary |-> ix.m_boundary, boundary |-> ix.boundary,
     m_rootBuckets |-> EmptyMap, m_points |-> <<>>, m_unusedIndices |-> <<>>]

\* C10: clear called in any reachable state leaves the index observably
\* identical to a freshly constructed one with that boundary: the counters
\* are those of a new index, and the calls that follow return what they
\* return on a new index.
C10_ClearIsFresh ==
    op = "clear" =>
        /\ Observable(structure, TheIndex) = Observable(structure, Fresh(TheIndex))
        /\ \A p \in PointsOf(structure) :
              /\ StructInsert(structure, TheIndex, p).ret
                    = StructInsert(structure, Fresh(TheIndex), p).ret
              /\ StructRemove(structure, TheIndex, p).ret
                    = StructRemove(structure, Fresh(TheIndex), p).ret

(***************************************************************************)
(* Tolerant equality (SpecTol): the four indexes called with points whose  *)
(* coordinates are less than EPSILON apart.                                *)
(***************************************************************************)
FinePoints == [Dims -> 0 .. MaxFine]

\* The number of points an index holds.
StoredCount(s, ix) ==
    CASE s = "KDTree" -> KDSize(ix.root)
      [] s = "BucketKDTree" -> BucketKDTree_totalPoints(ix.m_root)
      [] s = "PyramidTree" -> numPointsStored(ix.hashMap)
      [] s = "Multigrid" ->
           Cardinality(MultigridIndicesOver(ix.m_rootBuckets,
                                            DOMAIN ix.m_rootBuckets))

\* structure->insert(p) on an index that holds fewer than MaxTolStored points.
FineInsert(p) ==
    /\ StoredCount(structure, TheIndex) < MaxTolStored
    /\ LET r == StructInsert(structure, TheIndex, p)
       IN  /\ SetIndex(r.ix)
           /\ Call("insert", p, r.ret)

\* structure->query(p)
FineQuery(p) ==
    /\ Call("query", p, StructQuery(structure, TheIndex, p))
    /\ UNCHANGED <<kdVars, bkdVars, pyrVars, mgVars>>

NextTol ==
    \/ \E p \in FinePoints : FineInsert(p)
    \/ \E p \in FinePoints : FineQuery(p)

SpecTol == Init /\ [][NextTol]_vars

\* The coordinates in which two points differ.
DifferIn(p, q) == {d \in Dims : p[d] # q[d]}
Near(p, q) == \A d \in Dims : Abs(p[d] - q[d]) < EPSILON
Far(p, q) == \E d \in Dims : Abs(p[d] - q[d]) >= EPSILON

\* C11: tolerant equality, for each of the four indexes starting from an empty
\* index: if p2 differs from p in exactly one coordinate by less than EPSILON,
\* then after insert(p), query(p2) returns true and insert(p2) returns false;
\* if it differs in one coordinate by EPSILON or more, query(p2) returns false.
C11_TolerantEquality ==
    [][(/\ op = "insert" /\ ret = TRUE
        /\ StoredCount(structure, TheIndex) = 1
        /\ op' \in {"insert", "query"}
        /\ Cardinality(DifferIn(arg, arg')) = 1)
          => /\ (Near(arg, arg') /\ op' = "query") => ret' = TRUE
             /\ (Near(arg, arg') /\ op' = "insert") => ret' = FALSE
             /\ (Far(arg, arg') /\ op' = "query") => ret' = FALSE]_vars

(***************************************************************************)
(* Introspection of HashStructure (SpecPyr).                               *)
(***************************************************************************)
\* C12: no public operation faults in any reachable state: in particular
\* averagePointsPerBucket can be called on a freshly constructed or cleared
\* index that has no buckets without dividing by zero.
C12_NoOperationFaults ==
    ~outcome.fault

\* The sizes of the existing buckets.
BucketSizes(map) == {Len(map[k].points) : k \in DOMAIN map}

\* C15: minPointsPerBucket() returns the smallest number of points held by
\* any existing bucket, in every reachable state.
C15_MinPointsPerBucket ==
    (op = "minPointsPerBucket" /\ DOMAIN hashMap # {})
        => /\ ~outcome.fault
           /\ outcome.value \in BucketSizes(hashMap)
           /\ \A n \in BucketSizes(hashMap) : outcome.value <= n

(***************************************************************************)
(* Scenario A: a fixed sequence of calls on a fresh KDTree, run on every   *)
(* pair of points with coordinates 0.25, 0.5 and 0.75 (SpecScenarioA).     *)
(* testPoints holds the pair, testIndex the number of calls made.          *)
(***************************************************************************)
\* The coordinate q/4 in the units of the model (half an EPSILON).
Quarters(q) == q * (EpsilonInverse \div 2)

ScenarioPoints == [Dims -> {Quarters(1), Quarters(2), Quarters(3)}]

\* insert(a), insert(b), insert(b), query(b), remove(a), query(a), query(b)
ScenarioA(a, b) ==
    << [op |-> "insert", arg |-> a], [op |-> "insert", arg |-> b],
       [op |-> "insert", arg |-> b], [op |-> "query", arg |-> b],
       [op |-> "remove", arg |-> a], [op |-> "query", arg |-> a],
       [op |-> "query", arg |-> b] >>

InitScenarioA ==
    /\ testPhase = "scenarioA"
    /\ Constructed
    /\ structure = "KDTree"
    /\ testPoints \in [1 .. 2 -> ScenarioPoints]
    /\ testIndex = 0
    /\ testResult = "none"

ScenarioAStep == ScenarioA(testPoints[1], testPoints[2])[testIndex + 1]

\* The next call of the scenario, made on the index.
ScenarioCall(name, r) ==
    /\ testIndex < Len(ScenarioA(testPoints[1], testPoints[2]))
    /\ ScenarioAStep.op = name
    /\ SetIndex(r.ix)
    /\ op' = name
    /\ arg' = ScenarioAStep.arg
    /\ ret' = r.ret
    /\ outcome' = NoOutcome
    /\ testIndex' = testIndex + 1
    /\ UNCHANGED <<structure, testPoints, testPhase, testResult>>

ScenarioInsert ==
    /\ testPhase = "scenarioA"
    /\ ScenarioCall("insert", StructInsert(structure, TheIndex, ScenarioAStep.arg))

ScenarioRemove ==
    /\ testPhase = "scenarioA"
    /\ ScenarioCall("remove", StructRemove(structure, TheIndex, ScenarioAStep.arg))

ScenarioQuery ==
    /\ testPhase = "scenarioA"
    /\ ScenarioCall("query", [ix |-> TheIndex,
                              ret |-> StructQuery(structure, TheIndex, ScenarioAStep.arg)])

NextScenarioA == ScenarioInsert \/ ScenarioRemove \/ ScenarioQuery

SpecScenarioA == InitScenarioA /\ [][NextScenarioA]_vars

\* The points (0.5, 0.5) and (0.25, 0.75) of the scenario.
ScenarioAPoints ==
    << [d \in Dims |-> Quarters(2)],
       [d \in Dims |-> IF d = 0 THEN Quarters(1) ELSE Quarters(3)] >>

\* C13: on a fresh KDTree with D = 2, insert((0.5,0.5)) returns true,
\* insert((0.25,0.75)) returns true and again false, query((0.25,0.75))
\* returns true, remove((0.5,0.5)) returns true, then query((0.5,0.5)) returns
\* false and query((0.25,0.75)) returns true.
C13_ScenarioA ==
    (testPhase = "scenarioA" /\ testPoints = ScenarioAPoints /\ testIndex >= 1)
        => ret = <<TRUE, TRUE, FALSE, TRUE, TRUE, FALSE, TRUE>>[testIndex]

\* The scenario has run to its last call.
C13_Witness ==
    /\ testPhase = "scenarioA"
    /\ testPoints = ScenarioAPoints
    /\ testIndex = 7
    /\ op = "query" /\ arg = ScenarioAPoints[2] /\ ret = TRUE

(***************************************************************************)
(* The storage of the Multigrid (SpecMG).                                  *)
(***************************************************************************)
\* The number of times x occurs in a sequence.
Occurrences(seq, x) == Cardinality({j \in 1 .. Len(seq) : seq[j] = x})

\* The number of times the leaves under a map hold the index x.
RECURSIVE LeafOccurrences(_, _, _)
LeafOccurrences(map, keys, x) ==
    IF keys = {} THEN 0
    ELSE LET k == CHOOSE y \in keys : TRUE
         IN  (IF map[k].isLeaf
              THEN Occurrences(map[k].pointIndices, x)
              ELSE LeafOccurrences(map[k].children, DOMAIN map[k].children, x))
             + LeafOccurrences(map, keys \ {k}, x)

\* The number of indices the leaves under a map hold.
RECURSIVE LeafIndexCount(_, _)
LeafIndexCount(map, keys) ==
    IF keys = {} THEN 0
    ELSE LET k == CHOOSE y \in keys : TRUE
         IN  (IF map[k].isLeaf
              THEN Len(map[k].pointIndices)
              ELSE LeafIndexCount(map[k].children, DOMAIN map[k].children))
             + LeafIndexCount(map, keys \ {k})

\* The nodes under a map, each with its level (0 for a root bucket).
RECURSIVE MultigridNodesOver(_, _, _)
MultigridNodesOver(map, keys, level) ==
    IF keys = {} THEN {}
    ELSE LET k == CHOOSE y \in keys : TRUE
         IN  {[node |-> map[k], level |-> level]}
             \cup (IF map[k].isLeaf THEN {}
                   ELSE MultigridNodesOver(map[k].children,
                            DOMAIN map[k].children, level + 1))
             \cup MultigridNodesOver(map, keys \ {k}, level)

MultigridNodes == MultigridNodesOver(m_rootBuckets, DOMAIN m_rootBuckets, 0)

\* C14: Multigrid.numPoints() equals the number of points currently stored
\* in the index, after any sequence of insert, remove and clear.
C14_NumPointsIsStoredCount ==
    structure = "Multigrid"
        => Multigrid_numPoints(TheMultigrid)
             = LeafIndexCount(m_rootBuckets, DOMAIN m_rootBuckets)

\* C18: in every reachable state of the Multigrid every slot index of
\* m_points is either on the free stack or held by exactly one leaf (never
\* both, never twice), internal nodes hold no indices, and every stored point
\* has exactly one leaf index whose slot equals it.
C18_StorageInvariant ==
    structure = "Multigrid"
        => /\ \A x \in 0 .. Len(m_points) - 1 :
                Occurrences(m_unusedIndices, x)
                  + LeafOccurrences(m_rootBuckets, DOMAIN m_rootBuckets, x) = 1
           /\ \A n \in MultigridNodes : ~n.node.isLeaf => n.node.pointIndices = <<>>
           /\ \A x, y \in MultigridIndicesOver(m_rootBuckets, DOMAIN m_rootBuckets) :
                PointEquals(m_points[x + 1], m_points[y + 1]) => x = y

\* C19: with D >= 2, an insert that reaches a leaf at a level below D holding
\* m_bucketSize indices turns it into an internal node, so that no leaf at a
\* level below D ever holds more than m_bucketSize indices.
C19_LeafWithinBucketSize ==
    \A n \in MultigridNodes :
        (n.node.isLeaf /\ n.level < D) => Len(n.node.pointIndices) <= m_bucketSize

\* C20: when the free stack is not empty, the next insert that stores a new
\* point (in an existing leaf or in a new bucket) takes the most recently
\* vacated slot, writes the new point there, and leaves the length of
\* m_points unchanged.
C20_FreeSlotReuse ==
    [][(/\ structure = "Multigrid"
        /\ m_unusedIndices # <<>>
        /\ op' = "insert" /\ ret' = TRUE)
          => LET n == Len(m_unusedIndices)
                 pointIndex == m_unusedIndices[n]
             IN  /\ m_unusedIndices' = SubSeq(m_unusedIndices, 1, n - 1)
                 /\ m_points' = [m_points EXCEPT ![pointIndex + 1] = arg']
                 /\ LeafOccurrences(m_rootBuckets', DOMAIN m_rootBuckets',
                                    pointIndex) = 1]_vars

(***************************************************************************)
(* The tolerant comparison of reals and of points (SpecCompare): compare   *)
(* and the two operators of Point are applied to every pair of inputs      *)
(* within MaxFine half-EPSILONs of 0.  The arithmetic is exact: the        *)
(* rounding of float is not modelled.                                      *)
(***************************************************************************)
FineReals == (0 - MaxFine) .. MaxFine

\* compare(t, base)
Compare(t, base) ==
    /\ op' = "compare"
    /\ arg' = <<t, base>>
    /\ ret' = TRUE
    /\ outcome' = Returned(compare(t, base))
    /\ UNCHANGED <<structure, kdVars, bkdVars, pyrVars, mgVars, testVars>>

\* a == b
PointEqual(a, b) ==
    /\ op' = "operator=="
    /\ arg' = <<a, b>>
    /\ ret' = PointEquals(a, b)
    /\ outcome' = NoOutcome
    /\ UNCHANGED <<structure, kdVars, bkdVars, pyrVars, mgVars, testVars>>

\* a != b
PointNotEqual(a, b) ==
    /\ op' = "operator!="
    /\ arg' = <<a, b>>
    /\ ret' = PointNotEquals(a, b)
    /\ outcome' = NoOutcome
    /\ UNCHANGED <<structure, kdVars, bkdVars, pyrVars, mgVars, testVars>>

NextCompare ==
    \/ \E t, base \in FineReals : Compare(t, base)
    \/ \E a, b \in FinePoints : PointEqual(a, b)
    \/ \E a, b \in FinePoints : PointNotEqual(a, b)

SpecCompare == Init /\ [][NextCompare]_vars

\* C16: compare(a, b) returns 0 exactly when |a - b| < EPSILON, otherwise -1
\* when a < b and +1 when a > b, so that compare(a, b) = -compare(b, a); two
\* points are equal exactly when every coordinate of one is within EPSILON of
\* the other's, and inequality is the negation of equality.
C16_TolerantComparison ==
    /\ op = "compare"
         => LET a == arg[1]
                b == arg[2]
                c == outcome.value
            IN  /\ c = 0 <=> Abs(a - b) < EPSILON
                /\ c # 0 => ((a < b => c = -1) /\ (a > b => c = 1))
                /\ c \in {-1, 0, 1}
                /\ c = 0 - compare(b, a)
    /\ op = "operator=="
         => (ret <=> \A d \in Dims : Abs(arg[1][d] - arg[2][d]) < EPSILON)
    /\ op = "operator!="
         => (ret <=> \E d \in Dims : Abs(arg[1][d] - arg[2][d]) >= EPSILON)

\* Two points that differ and are equal, one coordinate being EPSILON short
\* of a difference that would tell them apart.
C16_Witness ==
    /\ op = "operator=="
    /\ ret = TRUE
    /\ arg[1] # arg[2]
    /\ \E d \in Dims : Abs(arg[1][d] - arg[2][d]) = EPSILON - 1

(***************************************************************************)
(* The ordering of the KDTree (SpecKD).                                    *)
(***************************************************************************)
\* The ordering of the sub-tree of a node whose cutting dimension is
\* cuttingDim (the depth of the node modulo D).
RECURSIVE KDOrdered(_, _)
KDOrdered(node, cuttingDim) ==
    \/ node = NULL
    \/ /\ \A q \in KDNodePoints(node.leftChild) :
            q[cuttingDim] < node.point[cuttingDim]
       /\ \A q \in KDNodePoints(node.rightChild) :
            q[cuttingDim] >= node.point[cuttingDim]
       /\ KDOrdered(node.leftChild, nextCuttingDimension(cuttingDim))
       /\ KDOrdered(node.rightChild, nextCuttingDimension(cuttingDim))

\* C17: after any sequence of inserts and removes on a KDTree, for every
\* node v at depth k every point in v's left subtree has coordinate k mod D
\* strictly less than v's point's, and every point in v's right subtree has
\* it greater than or equal.
C17_OrderingInvariant ==
    structure = "KDTree" => KDOrdered(root, 0)

\* A remove has replaced the point of a node that had only a left sub-tree,
\* and what was left of that sub-tree is now on the right.
C17_Witness ==
    /\ structure = "KDTree"
    /\ op = "remove" /\ ret = TRUE
    /\ root # NULL
    /\ root.leftChild = NULL
    /\ KDSize(root.rightChild) >= 2

(***************************************************************************)
(* The structure of the BucketKDTree on trees of two levels and more       *)
(* (SpecBKDDeep).  The points of SpecBKD never fill a second leaf; here    *)
(* the eighth point lies far from the others, so that the first split      *)
(* leaves seven points on the left and the next ones fill that leaf and    *)
(* split it again, along dimension 1.                                      *)
(***************************************************************************)
\* The i-th point: coordinate 0 is i grid steps (FarCoord for the eighth
\* point), coordinate 1 alternates between 0 and DeepSpread steps, the others
\* are 0.
DeepPoint(i) ==
    [d \in Dims |->
        IF d = 0 THEN EPSILON * (IF i = MAX_POINTS_PER_BUCKET - 1 THEN FarCoord ELSE i)
        ELSE IF d = 1 THEN EPSILON * DeepSpread * (i % 2)
        ELSE 0]

DeepPoints == {DeepPoint(i) : i \in 0 .. NumDeepPoints - 1}

DeepIndexOf(p) == CHOOSE i \in 0 .. NumDeepPoints - 1 : DeepPoint(i) = p

\* The harness inserts the point of number i when the tree holds exactly the
\* points of lower numbers, and removes points in any order: it fills the
\* tree, drains it, and fills it again from where the lower numbers are whole.
DeepInOrder(p) ==
    /\ DeepIndexOf(p) = BucketKDTree_totalPoints(m_root)
    /\ \A i \in 0 .. DeepIndexOf(p) - 1 : DeepPoint(i) \in BKDPoints(m_root)

DeepInsert(p) ==
    /\ structure = "BucketKDTree"
    /\ DeepInOrder(p)
    /\ LET r == BucketKDTree_insert(m_root, p)
       IN  /\ m_root' = r.node
           /\ Call("insert", p, r.ret)
    /\ UNCHANGED <<kdVars, pyrVars, mgVars>>

NextBKDDeep ==
    \/ \E p \in DeepPoints : DeepInsert(p)
    \/ \E p \in DeepPoints : BucketKDTreeRemove(p)

SpecBKDDeep == InitBKD /\ [][NextBKDDeep]_vars

\* The nodes of a subtree, each with its path from the root of the subtree.
RECURSIVE BKDNodes(_, _)
BKDNodes(node, path) ==
    IF node = NULL THEN {}
    ELSE {[path |-> path, node |-> node]}
         \cup BKDNodes(node.m_leftChild, Append(path, "L"))
         \cup BKDNodes(node.m_rightChild, Append(path, "R"))

\* The number of points stored in the leaves of a subtree.
RECURSIVE BKDLeafCount(_)
BKDLeafCount(node) ==
    IF node = NULL THEN 0
    ELSE IF node.m_isLeaf THEN Len(node.m_points)
    ELSE BKDLeafCount(node.m_leftChild) + BKDLeafCount(node.m_rightChild)

\* C21: after any sequence of inserts and removes on a BucketKDTree (splits
\* and merges, cascaded ones included), m_totalPoints of every node equals
\* the number of points stored in the leaves of the subtree rooted at it.
C21_TotalPoints ==
    \A n \in BKDNodes(m_root, <<>>) : n.node.m_totalPoints = BKDLeafCount(n.node)

\* A remove has left a tree of two internal levels whose other leaf is empty.
C21_Witness ==
    /\ structure = "BucketKDTree"
    /\ op = "remove" /\ ret = TRUE
    /\ ~m_root.m_isLeaf
    /\ ~m_root.m_leftChild.m_isLeaf
    /\ m_root.m_rightChild.m_isLeaf
    /\ m_root.m_rightChild.m_totalPoints = 0
    /\ m_root.m_totalPoints > MIN_POINTS_BEFORE_MERGE

\* C22: after any sequence of inserts and removes, for every internal node v
\* every point in v's left subtree has coordinate m_cuttingDimension strictly
\* below m_cuttingValue, and every point in v's right subtree has it at or
\* above m_cuttingValue.
C22_CuttingPlane ==
    \A n \in BKDNodes(m_root, <<>>) :
        ~n.node.m_isLeaf
          => /\ \A q \in BKDPoints(n.node.m_leftChild) :
                  RealLess(q[n.node.m_cuttingDimension], n.node.m_cuttingValue)
             /\ \A q \in BKDPoints(n.node.m_rightChild) :
                  ~RealLess(q[n.node.m_cuttingDimension], n.node.m_cuttingValue)

\* A tree of two internal levels that cut along different dimensions.
C22_Witness ==
    /\ structure = "BucketKDTree"
    /\ ~m_root.m_isLeaf
    /\ ~m_root.m_leftChild.m_isLeaf
    /\ m_root.m_leftChild.m_cuttingDimension # m_root.m_cuttingDimension
    /\ BKDPoints(m_root.m_leftChild.m_leftChild) # {}
    /\ BKDPoints(m_root.m_leftChild.m_rightChild) # {}

\* C23: after any sequence of operations every internal node has both
\* children and stores no points itself, every leaf has no children and holds
\* at most MAX_POINTS_PER_BUCKET points.
C23_Shape ==
    \A n \in BKDNodes(m_root, <<>>) :
        IF n.node.m_isLeaf
        THEN /\ n.node.m_leftChild = NULL
             /\ n.node.m_rightChild = NULL
             /\ Len(n.node.m_points) <= MAX_POINTS_PER_BUCKET
        ELSE /\ n.node.m_leftChild # NULL
             /\ n.node.m_rightChild # NULL
             /\ n.node.m_points = <<>>

\* A full leaf below an internal node.
C23_Witness ==
    /\ structure = "BucketKDTree"
    /\ ~m_root.m_isLeaf
    /\ m_root.m_leftChild.m_isLeaf
    /\ Len(m_root.m_leftChild.m_points) = MAX_POINTS_PER_BUCKET

\* The paths of the internal nodes of a tree, and the node at a path.
BKDInternal(rt) == {n.path : n \in {x \in BKDNodes(rt, <<>>) : ~x.node.m_isLeaf}}
BKDNodeAt(rt, path) == (CHOOSE n \in BKDNodes(rt, <<>>) : n.path = path).node

\* C24: after every completed remove no internal node has m_totalPoints below
\* MIN_POINTS_BEFORE_MERGE = 4; a node is collapsed only when its
\* m_totalPoints (the removed point taken off) is below 4; whenever a node is
\* collapsed both of its children are leaves (a child collapsed by the same
\* remove included), and the leaf that results holds exactly the points its
\* subtree held, less the removed one.
C24_MergePolicy ==
    [][(structure = "BucketKDTree" /\ op' = "remove")
        => /\ \A n \in BKDNodes(m_root', <<>>) :
                ~n.node.m_isLeaf => n.node.m_totalPoints >= MIN_POINTS_BEFORE_MERGE
           /\ \A path \in BKDInternal(m_root) \ BKDInternal(m_root') :
                LET v == BKDNodeAt(m_root, path)
                IN  /\ ret' = TRUE
                    /\ v.m_totalPoints - 1 < MIN_POINTS_BEFORE_MERGE
                    /\ \A side \in {"L", "R"} :
                         \/ BKDNodeAt(m_root, Append(path, side)).m_isLeaf
                         \/ Append(path, side) \in BKDInternal(m_root) \ BKDInternal(m_root')
                    /\ (\E n \in BKDNodes(m_root', <<>>) : n.path = path)
                         => LET leaf == BKDNodeAt(m_root', path)
                            IN  /\ leaf.m_isLeaf
                                /\ Len(leaf.m_points) = v.m_totalPoints - 1
                                /\ BKDPoints(leaf)
                                     = {q \in BKDPoints(v) : ~PointEquals(q, arg')}]_vars

\* A remove has left the root a leaf of three points, one of which was
\* inserted after the second split.
C24_Witness ==
    /\ structure = "BucketKDTree"
    /\ op = "remove" /\ ret = TRUE
    /\ m_root.m_isLeaf
    /\ m_root.m_totalPoints = MIN_POINTS_BEFORE_MERGE - 1
    /\ \E i \in 1 .. Len(m_root.m_points) :
          DeepIndexOf(m_root.m_points[i]) >= MAX_POINTS_PER_BUCKET + 1

(***************************************************************************)
(* The hash of the PyramidTree (SpecHash).  hashPoint reads a point only   *)
(* through its normalised coordinates, so a boundary [0, HashWidth] with   *)
(* whole coordinates stands for [0, 1] with coordinates k / HashWidth.     *)
(* FineBoundary is [0, 1] in dimension 1 in the units of the model (2 /    *)
(* EPSILON half-EPSILONs), with the coordinates at and next to its ends.   *)
(***************************************************************************)
FineBoundary ==
    [d \in Dims |-> IF d = 0 THEN Interval(0, HashWidth)
                             ELSE Interval(0, 2 * EpsilonInverse)]

HashBoundaries == {Boundary(0, HashWidth), FineBoundary}

\* The coordinates the harness hashes inside an interval.
HashCoords(i) ==
    IF i.max - i.min <= HashWidth THEN i.min .. i.max
    ELSE {i.min, i.min + 1, i.max - 1, i.max}

HashInputs(bnd) ==
    {p \in [Dims -> UNION {HashCoords(bnd[d]) : d \in Dims}] :
        \A d \in Dims : p[d] \in HashCoords(bnd[d])}

\* PyramidTree::hashPoint(p)
PyramidTreeHashPoint(p) ==
    /\ structure = "PyramidTree"
    /\ ~Faulted
    /\ op' = "hashPoint"
    /\ arg' = p
    /\ ret' = TRUE
    /\ outcome' = Returned(PyramidTree_hashPoint(p, m_boundary))
    /\ UNCHANGED <<structure, kdVars, bkdVars, pyrVars, mgVars, testVars>>

NextHash ==
    \/ \E b \in HashBoundaries : PyramidTreeClear(b)
    \/ \E p \in HashInputs(m_boundary) : PyramidTreeHashPoint(p)

SpecHash == InitPyr /\ [][NextHash]_vars

\* The height of p in dimension d, |0.5 - (p[d] - min) / (max - min)|, and
\* whether its normalised coordinate is below 0.5.
HeightOf(p, bnd, d) ==
    Real(Abs((bnd[d].max - bnd[d].min) - 2 * (p[d] - bnd[d].min)),
         2 * (bnd[d].max - bnd[d].min))
BelowCentre(p, bnd, d) == 2 * (p[d] - bnd[d].min) < bnd[d].max - bnd[d].min

\* The lowest-numbered dimension of maximal height among the candidates.
MaxHeightDim(p, bnd, candidates) ==
    CHOOSE d \in candidates :
        /\ \A e \in candidates \ {d} :
              ~RealLT(HeightOf(p, bnd, d), HeightOf(p, bnd, e))
        /\ \A e \in candidates :
              (e < d) => RealLT(HeightOf(p, bnd, e), HeightOf(p, bnd, d))

\* (pyramid_index + height_dMax) * bucket_interval, truncated.
KeyFor(p, bnd, dMax) ==
    LET h == HeightOf(p, bnd, dMax)
        index == IF BelowCentre(p, bnd, dMax) THEN dMax ELSE dMax + D
    IN  Truncate((index * h.den + h.num) * m_bucketInterval, h.den)

\* The hash is the key of dimension dMax.
HashUses(dMax) ==
    /\ DMaxScan(arg, m_boundary, 1, 0,
                pyramidHeight(arg[0], m_boundary[0].min, m_boundary[0].max)).dMax = dMax
    /\ outcome.value = KeyFor(arg, m_boundary, dMax)

C28_BoundaryValueSkipped ==
    op = "hashPoint"
      => LET candidates == {d \in Dims :
                              2 * HeightOf(arg, m_boundary, d).num
                                # HeightOf(arg, m_boundary, d).den}
         IN  candidates # {} => HashUses(MaxHeightDim(arg, m_boundary, candidates))

(***************************************************************************)
(* The buckets of the HashStructure (SpecPyr).                             *)
(***************************************************************************)
\* C30: in every bucket of the PyramidTree the point list and the sum list
\* have the same length, and the i-th sum is the coordinate sum of the i-th
\* point.
C30_BucketInvariant ==
    structure = "PyramidTree"
      => \A key \in DOMAIN hashMap :
            /\ Len(hashMap[key].points) = Len(hashMap[key].pointSums)
            /\ \A i \in 1 .. Len(hashMap[key].points) :
                  hashMap[key].pointSums[i] = PointSum(hashMap[key].points[i])

\* A remove has just taken a point out of a bucket that still holds two
\* points with different sums.
C30_Witness ==
    /\ structure = "PyramidTree"
    /\ op = "remove"
    /\ ret = TRUE
    /\ \E key \in DOMAIN hashMap :
          /\ Len(hashMap[key].points) >= 2
          /\ hashMap[key].pointSums[1] # hashMap[key].pointSums[2]

(***************************************************************************)
(* Removal of a KDTree node that has a right sub-tree (SpecKD).            *)
(***************************************************************************)
\* The sub-tree of rt at the end of 'path' (NULL when the path leaves rt).
RECURSIVE KDSubtreeAt(_, _)
KDSubtreeAt(rt, path) ==
    IF rt = NULL \/ path = <<>> THEN rt
    ELSE KDSubtreeAt(IF Head(path) = "L" THEN rt.leftChild ELSE rt.rightChild,
                     Tail(path))

\* The node at 'path' holds p and has a right child.
RemovesWithRightChild(rt, path, p) ==
    /\ KDSubtreeAt(rt, path) # NULL
    /\ KDSubtreeAt(rt, path).point = p
    /\ KDSubtreeAt(rt, path).rightChild # NULL

\* After the remove the node at 'path' holds a point of its former right
\* sub-tree that is minimal along the node's cutting dimension, and the
\* right sub-tree has lost exactly one node.
ReplacedByRightMinimum(before, after, path) ==
    LET v == KDSubtreeAt(before, path)
        w == KDSubtreeAt(after, path)
        cd == Len(path) % D
        right == KDNodePoints(v.rightChild)
    IN  /\ w # NULL
        /\ w.point \in right
        /\ \A q \in right : w.point[cd] <= q[cd]
        /\ KDSize(w.rightChild) = KDSize(v.rightChild) - 1
        /\ w.leftChild = v.leftChild

\* C29: KDTree.remove(p) with p equal to the point of a node v that has a
\* right child: afterwards v holds a point that was in v's right subtree and
\* has the minimum coordinate along v's cutting dimension among that
\* subtree's points, exactly one node has been deleted from the right
\* subtree, and the ordering invariant holds for the whole tree.
C29_RemoveWithRightChild ==
    [][(structure = "KDTree" /\ op' = "remove")
         => \A n \in KDNodes(root, <<>>) :
               RemovesWithRightChild(root, n.path, arg')
                 => /\ ReplacedByRightMinimum(root, root', n.path)
                    /\ KDOrdered(root', 0)]_vars

\* The descent of recursiveRemove from the root arrives at 'path': no node
\* above it has p's coordinate along its own cutting dimension.
DescentReaches(rt, path, p) ==
    \A k \in 0 .. Len(path) - 1 :
        KDSubtreeAt(rt, SubSeq(path, 1, k)).point[k % D] # p[k % D]

\* The same replacement, for the nodes the descent arrives at.
RemoveReachedNodeWithRightChild ==
    [][(structure = "KDTree" /\ op' = "remove")
         => \A n \in KDNodes(root, <<>>) :
               (RemovesWithRightChild(root, n.path, arg')
                  /\ DescentReaches(root, n.path, arg'))
                 => /\ ReplacedByRightMinimum(root, root', n.path)
                    /\ KDOrdered(root', 0)]_vars

(***************************************************************************)
(* Split and merge of a BucketKDTree<3> (SpecScenarioB): nine points whose *)
(* dimension-0 coordinates are 0.0, 0.1, ..., 0.8 and whose other          *)
(* coordinates are equal are inserted, each is queried, and then up to     *)
(* MaxRemoved of them are removed in any order.  testPoints is the order   *)
(* of insertion: ascending, but for one point that is kept for the end.    *)
(***************************************************************************)
\* 0.1 in half-EPSILONs.
Tenth == (2 * EpsilonInverse) \div 10

ScenarioBPoint(k, c) == [d \in Dims |-> IF d = 0 THEN k * Tenth ELSE c]

\* The nine points in ascending order with the k-th one moved to the end.
ScenarioBOrder(last, c) ==
    [i \in 1 .. MAX_POINTS_PER_BUCKET + 1 |->
        IF i = MAX_POINTS_PER_BUCKET + 1 THEN ScenarioBPoint(last, c)
        ELSE IF i - 1 < last THEN ScenarioBPoint(i - 1, c)
        ELSE ScenarioBPoint(i, c)]

InitScenarioB ==
    /\ testPhase = "scenarioB"
    /\ Constructed
    /\ structure = "BucketKDTree"
    /\ testPoints \in {ScenarioBOrder(last, c) :
                          last \in 0 .. MAX_POINTS_PER_BUCKET, c \in {0, 5 * Tenth}}
    /\ testIndex = 0
    /\ testResult = "none"

ScenarioBCall(name, p, result) ==
    /\ op' = name
    /\ arg' = p
    /\ ret' = result
    /\ outcome' = NoOutcome
    /\ UNCHANGED <<structure, kdVars, pyrVars, mgVars, testPoints, testPhase, testResult>>

ScenarioBInsert ==
    /\ testPhase = "scenarioB"
    /\ testIndex < Len(testPoints)
    /\ LET r == BucketKDTree_insert(m_root, testPoints[testIndex + 1])
       IN  /\ m_root' = r.node
           /\ ScenarioBCall("insert", testPoints[testIndex + 1], r.ret)
    /\ testIndex' = testIndex + 1

ScenarioBQuery ==
    /\ testPhase = "scenarioB"
    /\ testIndex >= Len(testPoints)
    /\ testIndex < 2 * Len(testPoints)
    /\ LET p == testPoints[testIndex - Len(testPoints) + 1]
       IN  ScenarioBCall("query", p, BucketKDTree_query(m_root, p))
    /\ testIndex' = testIndex + 1
    /\ UNCHANGED m_root

ScenarioBRemove(p) ==
    /\ testPhase = "scenarioB"
    /\ testIndex >= 2 * Len(testPoints)
    /\ testIndex < 2 * Len(testPoints) + MaxRemoved
    /\ p \in BKDPoints(m_root)
    /\ LET r == BucketKDTree_remove(m_root, p)
       IN  /\ m_root' = r.node
           /\ ScenarioBCall("remove", p, r.ret)
    /\ testIndex' = testIndex + 1

NextScenarioB ==
    \/ ScenarioBInsert
    \/ ScenarioBQuery
    \/ \E k \in 0 .. MAX_POINTS_PER_BUCKET, c \in {0, 5 * Tenth} :
          ScenarioBRemove(ScenarioBPoint(k, c))

SpecScenarioB == InitScenarioB /\ [][NextScenarioB]_vars

\* All nine points are in and none has been removed.
ScenarioBInserted ==
    /\ testPhase = "scenarioB"
    /\ testIndex >= Len(testPoints)
    /\ testIndex <= 2 * Len(testPoints)

\* The points were inserted in ascending order of dimension 0.
ScenarioBAscending ==
    \A i \in 1 .. Len(testPoints) : testPoints[i][0] = (i - 1) * Tenth

\* The root is internal and cuts dimension 0.
ScenarioBSplit == ~m_root.m_isLeaf /\ m_root.m_cuttingDimension = 0

\* m_cuttingValue of the root is n / 20.
CutAtTwentieths(n) == 2 * m_root.m_cuttingValue.num = n * Tenth * m_root.m_cuttingValue.den

\* Every query the scenario has made returned true.
ScenarioBQueriesTrue == (ScenarioBInserted /\ op = "query") => ret = TRUE

\* C25 as stated: after the nine inserts the root is an internal node with
\* cutting_dimension = 0 and cutting_value = 0.4, and every inserted point
\* queries true.
C25_SplitAsStated ==
    /\ ScenarioBInserted => (ScenarioBSplit /\ CutAtTwentieths(8))
    /\ ScenarioBQueriesTrue

\* C25, amended: after the nine inserts the root is an internal node with
\* cutting_dimension = 0 whose cutting_value is the mean of the dimension-0
\* coordinates of the first eight points inserted, (3.6 - x) / 8 with x the
\* coordinate of the ninth: 0.35 when the points are inserted in ascending
\* order, and 0.4 only when the ninth point is the one at 0.4; every
\* inserted point queries true.
C25_Split ==
    /\ ScenarioBInserted
         => /\ ScenarioBSplit
            /\ m_root.m_cuttingValue.num * MAX_POINTS_PER_BUCKET
                  = (36 * Tenth - testPoints[Len(testPoints)][0])
                      * m_root.m_cuttingValue.den
            /\ ScenarioBAscending => CutAtTwentieths(7)
            /\ CutAtTwentieths(8) <=> testPoints[Len(testPoints)][0] = 4 * Tenth
    /\ ScenarioBQueriesTrue

\* The nine points went in in ascending order, the root cuts at 0.35 and
\* the last of them has just been queried.
C25_Witness ==
    /\ ScenarioBInserted
    /\ ScenarioBAscending
    /\ testIndex = 2 * Len(testPoints)
    /\ op = "query"
    /\ ret = TRUE
    /\ ScenarioBSplit
    /\ CutAtTwentieths(7)

\* The nine points are under an internal root after one split.
ScenarioBOneSplit ==
    /\ ~m_root.m_isLeaf
    /\ m_root.m_leftChild.m_isLeaf
    /\ m_root.m_rightChild.m_isLeaf

\* C26 as stated: on a BucketKDTree holding nine points under an internal
\* root (one split), removing any five of the points makes the root a leaf
\* again.
C26_MergeAsStated ==
    (testPhase = "scenarioB" /\ op = "remove"
       /\ testIndex = 2 * Len(testPoints) + 5)
      => m_root.m_isLeaf

\* C26, amended: on a BucketKDTree holding nine points under an internal
\* root (one split), every remove of a stored point returns true and takes
\* that point out; the root is still internal (total_points = 4) after any
\* five removes, and is a leaf again, holding the three points left, after
\* any six.
C26_Merge ==
    [][(testPhase = "scenarioB" /\ op' = "remove")
         => /\ ret' = TRUE
            /\ BKDPoints(m_root') = BKDPoints(m_root) \ {arg'}
            /\ m_root'.m_totalPoints = m_root.m_totalPoints - 1
            /\ (testIndex' = 2 * Len(testPoints) + 1) => ScenarioBOneSplit
            /\ (testIndex' <= 2 * Len(testPoints) + 5) => ~m_root'.m_isLeaf
            /\ (testIndex' = 2 * Len(testPoints) + 6)
                  => /\ m_root'.m_isLeaf
                     /\ Len(m_root'.m_points) = 3]_vars

\* Six of the nine points have been removed and the root is a leaf of three.
C26_Witness ==
    /\ testPhase = "scenarioB"
    /\ op = "remove"
    /\ ret = TRUE
    /\ testIndex = 2 * Len(testPoints) + 6
    /\ m_root.m_isLeaf
    /\ m_root.m_totalPoints = 3

(***************************************************************************)
(* What a KDTree remove changes, and the points its nodes hold (SpecKD).   *)
(***************************************************************************)
\* C31: KDTree.remove(p) changes the membership of p only: for every point
\* q not equal to p, query(q) returns the same value after remove(p) as
\* before it, whether the remove returns true or false.
C31_RemoveChangesOnlyItsPoint ==
    [][(structure = "KDTree" /\ op' = "remove")
         => \A q \in KDTreePoints :
               PointNotEquals(q, arg')
                 => KDTree_query(root', q, 0) = KDTree_query(root, q, 0)]_vars

\* C32: KDTree never holds the same point in two nodes: after any sequence
\* of inserts and removes of integer-grid points, no two distinct nodes
\* store equal points.
C32_NoPointInTwoNodes ==
    structure = "KDTree"
      => \A m, n \in KDNodes(root, <<>>) :
            PointEquals(m.point, n.point) => m.path = n.path

(***************************************************************************)
(* Removal of a KDTree node that has only a left sub-tree (SpecKDDeep).    *)
(***************************************************************************)
\* The node at 'path' holds p and has a left child and no right child.
RemovesWithLeftChildOnly(rt, path, p) ==
    /\ KDSubtreeAt(rt, path) # NULL
    /\ KDSubtreeAt(rt, path).point = p
    /\ KDSubtreeAt(rt, path).leftChild # NULL
    /\ KDSubtreeAt(rt, path).rightChild = NULL

\* After the remove the node at 'path' holds a point of its former left
\* sub-tree that is minimal along the node's cutting dimension; what is left
\* of that sub-tree, one node fewer, is its right child, and it has no left
\* child.
ReplacedByLeftMinimum(before, after, path) ==
    LET v == KDSubtreeAt(before, path)
        w == KDSubtreeAt(after, path)
        cd == Len(path) % D
        left == KDNodePoints(v.leftChild)
    IN  /\ w # NULL
        /\ w.point \in left
        /\ \A q \in left : w.point[cd] <= q[cd]
        /\ KDSize(w.rightChild) = KDSize(v.leftChild) - 1
        /\ KDNodePoints(w.rightChild) \subseteq left
        /\ w.leftChild = NULL

\* KDTree::insert, for trees of up to MaxDeepNodes nodes.
KDTreeDeepInsert(p) ==
    /\ structure = "KDTree"
    /\ LET r == KDTree_insert(root, p, 0)
       IN  /\ KDSize(r.node) <= MaxDeepNodes
           /\ root' = r.node
           /\ Call("insert", p, r.ret)
    /\ UNCHANGED <<bkdVars, pyrVars, mgVars>>

NextKDDeep ==
    \/ \E p \in KDTreePoints : KDTreeDeepInsert(p)
    \/ \E p \in KDTreePoints : KDTreeRemove(p)

SpecKDDeep == InitKD /\ [][NextKDDeep]_vars

\* C37: KDTree removal with only a left child: when remove(p) is called
\* with p equal to the point of a node v that has a left child and no right
\* child, afterwards v holds the point of its former left subtree with the
\* minimum coordinate along v's cutting dimension, one node has been deleted
\* from that subtree, the remaining subtree is attached as v's right child
\* and v has no left child.
C37_RemoveWithLeftChildOnly ==
    [][(structure = "KDTree" /\ op' = "remove")
         => \A n \in KDNodes(root, <<>>) :
               RemovesWithLeftChildOnly(root, n.path, arg')
                 => ReplacedByLeftMinimum(root, root', n.path)]_vars

\* The same replacement, for the nodes the descent arrives at.
RemoveReachedNodeWithLeftChildOnly ==
    [][(structure = "KDTree" /\ op' = "remove")
         => \A n \in KDNodes(root, <<>>) :
               (RemovesWithLeftChildOnly(root, n.path, arg')
                  /\ DescentReaches(root, n.path, arg'))
                 => ReplacedByLeftMinimum(root, root', n.path)]_vars

(***************************************************************************)
(* KDTree::findMinimum (SpecFindMin): the trees are those that inserts and *)
(* removes build; findMinimum is applied to the whole tree, as remove      *)
(* applies it to a sub-tree, and the result is kept in 'arg', the          *)
(* dimension asked for in 'outcome'.                                       *)
(***************************************************************************)
\* findMinimum(root, dimension, 0)
KDTreeFindMinimum(dimension) ==
    /\ structure = "KDTree"
    /\ root # NULL
    /\ op' = "findMinimum"
    /\ arg' = KDTree_findMinimum(root, dimension, 0)
    /\ ret' = TRUE
    /\ outcome' = Returned(dimension)
    /\ UNCHANGED <<structure, kdVars, bkdVars, pyrVars, mgVars, testVars>>

NextFindMin ==
    \/ \E p \in KDTreePoints : KDTreeInsert(p)
    \/ \E p \in KDTreePoints : KDTreeRemove(p)
    \/ \E dimension \in Dims : KDTreeFindMinimum(dimension)

SpecFindMin == InitKD /\ [][NextFindMin]_vars

\* The points of the nodes the descent looks at: the left child only at a
\* node whose cutting dimension is 'dimension', both children otherwise.
RECURSIVE FindMinimumVisits(_, _, _)
FindMinimumVisits(node, dimension, cuttingDim) ==
    IF node = NULL THEN {}
    ELSE {node.point}
         \cup FindMinimumVisits(node.leftChild, dimension,
                                nextCuttingDimension(cuttingDim))
         \cup (IF dimension = cuttingDim THEN {}
               ELSE FindMinimumVisits(node.rightChild, dimension,
                                      nextCuttingDimension(cuttingDim)))

\* findMinimum(node, dimension, cuttingDim) is a point the descent looks at
\* and no point of the sub-tree is lower in 'dimension'.
FindsMinimum(node, dimension, cuttingDim) ==
    LET m == KDTree_findMinimum(node, dimension, cuttingDim)
    IN  /\ m # NULL
        /\ m \in KDNodePoints(node)
        /\ m \in FindMinimumVisits(node, dimension, cuttingDim)
        /\ \A q \in KDNodePoints(node) : m[dimension] <= q[dimension]

\* C38: KDTree.findMinimum(node, dim, cd) called on a non-empty subtree
\* that satisfies the ordering invariant returns a point stored in that
\* subtree whose coordinate dim is less than or equal to that of every
\* point in the subtree, descending only into the left child at nodes whose
\* cutting dimension equals dim and into both children otherwise.
C38_FindMinimum ==
    structure = "KDTree"
      => /\ \A n \in KDNodes(root, <<>>) : \A dimension \in Dims :
               KDOrdered(KDSubtreeAt(root, n.path), Len(n.path) % D)
                 => FindsMinimum(KDSubtreeAt(root, n.path), dimension,
                                 Len(n.path) % D)
         /\ (op = "findMinimum" /\ KDOrdered(root, 0))
               => /\ arg \in FindMinimumVisits(root, outcome.value, 0)
                  /\ \A q \in KDNodePoints(root) :
                        arg[outcome.value] <= q[outcome.value]

\* findMinimum has searched both children of the root and returned a point
\* of the right sub-tree that is lower than the root's and the left's.
C38_Witness ==
    /\ structure = "KDTree"
    /\ op = "findMinimum"
    /\ outcome.value = 1
    /\ root.leftChild # NULL
    /\ root.rightChild # NULL
    /\ arg \in KDNodePoints(root.rightChild)
    /\ arg[1] < root.point[1]
    /\ \A q \in KDNodePoints(root.leftChild) : arg[1] < q[1]

(***************************************************************************)
(* The split of a full BucketKDTree leaf (SpecSplit): the nine points of a *)
(* 3 x 3 grid are inserted, row by row or column by column, one of them    *)
(* kept for the end, and then queried.  The steps of the grid differ per   *)
(* dimension, so that either dimension can have the largest range, or both *)
(* the same.  testPoints is the order of insertion.                        *)
(***************************************************************************)
SplitPoint(k, stretch, byRow) ==
    [d \in Dims |->
        EPSILON * stretch[d]
          * (IF (d = 0) = byRow THEN k \div 3 ELSE k % 3)]

SplitOrder(last, stretch, byRow) ==
    [i \in 1 .. MAX_POINTS_PER_BUCKET + 1 |->
        IF i = MAX_POINTS_PER_BUCKET + 1 THEN SplitPoint(last, stretch, byRow)
        ELSE IF i - 1 < last THEN SplitPoint(i - 1, stretch, byRow)
        ELSE SplitPoint(i, stretch, byRow)]

SplitOrders ==
    {SplitOrder(last, stretch, byRow) :
        last \in 0 .. MAX_POINTS_PER_BUCKET,
        stretch \in [Dims -> 1 .. MaxStretch],
        byRow \in BOOLEAN}

InitSplit ==
    /\ testPhase = "split"
    /\ Constructed
    /\ structure = "BucketKDTree"
    /\ testPoints \in SplitOrders
    /\ testIndex = 0
    /\ testResult = "none"

SplitCall(name, p, result) ==
    /\ op' = name
    /\ arg' = p
    /\ ret' = result
    /\ outcome' = NoOutcome
    /\ testIndex' = testIndex + 1
    /\ UNCHANGED <<structure, kdVars, pyrVars, mgVars, testPoints, testPhase, testResult>>

SplitInsert ==
    /\ testPhase = "split"
    /\ testIndex < Len(testPoints)
    /\ LET r == BucketKDTree_insert(m_root, testPoints[testIndex + 1])
       IN  /\ m_root' = r.node
           /\ SplitCall("insert", testPoints[testIndex + 1], r.ret)

SplitQuery ==
    /\ testPhase = "split"
    /\ testIndex >= Len(testPoints)
    /\ testIndex < 2 * Len(testPoints)
    /\ LET p == testPoints[testIndex - Len(testPoints) + 1]
       IN  SplitCall("query", p, BucketKDTree_query(m_root, p))
    /\ UNCHANGED m_root

NextSplit == SplitInsert \/ SplitQuery

SpecSplit == InitSplit /\ [][NextSplit]_vars

\* The leaf that insert(p) and query(p) arrive at, by its position.
RECURSIVE BKDLeafPathFor(_, _, _)
BKDLeafPathFor(node, p, path) ==
    IF node.m_isLeaf THEN path
    ELSE IF p[node.m_cuttingDimension] * node.m_cuttingValue.den
              < node.m_cuttingValue.num
    THEN BKDLeafPathFor(node.m_leftChild, p, Append(path, "L"))
    ELSE BKDLeafPathFor(node.m_rightChild, p, Append(path, "R"))

SeqRange(sq) == {sq[i] : i \in 1 .. Len(sq)}
SetMax(S) == CHOOSE x \in S : \A y \in S : y <= x
SetMin(S) == CHOOSE x \in S : \A y \in S : x <= y

\* max - min of the coordinates of 'points' in dimension d.
RangeOver(points, d) ==
    SetMax({q[d] : q \in SeqRange(points)}) - SetMin({q[d] : q \in SeqRange(points)})

\* The lowest-numbered dimension with the largest range.
LargestRangeDim(points) ==
    CHOOSE d \in Dims :
        /\ \A e \in Dims : RangeOver(points, e) <= RangeOver(points, d)
        /\ \A e \in Dims : (e < d) => RangeOver(points, e) < RangeOver(points, d)

\* The node that has replaced 'leaf' is the split of 'leaf' followed by the
\* insertion of p.
IsSplitOf(n, leaf, p) ==
    LET cd == LargestRangeDim(leaf.m_points)
        total == SumOfDimension(cd, leaf.m_points, 1)
        count == Len(leaf.m_points)
        Below(q) == q[cd] * count < total
        all == SeqRange(leaf.m_points) \cup {p}
    IN  /\ ~n.m_isLeaf
        /\ n.m_points = <<>>
        /\ n.m_cuttingDimension = cd
        /\ n.m_cuttingValue.num * count = total * n.m_cuttingValue.den
        /\ n.m_leftChild.m_isLeaf
        /\ n.m_rightChild.m_isLeaf
        /\ SeqRange(n.m_leftChild.m_points) = {q \in all : Below(q)}
        /\ SeqRange(n.m_rightChild.m_points) = {q \in all : ~Below(q)}
        /\ Len(n.m_leftChild.m_points) + Len(n.m_rightChild.m_points) = count + 1

\* C33: BucketKDTree split policy: when insert(p) meets a full leaf not
\* containing p, the leaf becomes an internal node whose cutting dimension
\* is the lowest-numbered dimension with the largest (max - min) range over
\* the leaf's 8 points, whose cutting value is the mean of those 8 points'
\* coordinates in that dimension (the new point excluded), whose left leaf
\* holds exactly the points with coordinate < cutting value and whose right
\* leaf holds the rest; p is then inserted into the side selected by the
\* same test.
C33_SplitPolicy ==
    [][(structure = "BucketKDTree" /\ op' = "insert")
         => LET path == BKDLeafPathFor(m_root, arg', <<>>)
                leaf == BKDNodeAt(m_root, path)
            IN  (Len(leaf.m_points) = MAX_POINTS_PER_BUCKET
                   /\ ~BucketKDTreeNode_contains(leaf, arg'))
                  => /\ ret' = TRUE
                     /\ IsSplitOf(BKDNodeAt(m_root', path), leaf, arg')]_vars

\* A leaf whose eight points have the same range in both dimensions has
\* been split along dimension 0 by the ninth insert.
C33_Witness ==
    /\ testPhase = "split"
    /\ op = "insert"
    /\ ret = TRUE
    /\ testIndex = Len(testPoints)
    /\ RangeOver(SubSeq(testPoints, 1, MAX_POINTS_PER_BUCKET), 0)
          = RangeOver(SubSeq(testPoints, 1, MAX_POINTS_PER_BUCKET), 1)
    /\ ~m_root.m_isLeaf
    /\ m_root.m_cuttingDimension = 0
    /\ m_root.m_leftChild.m_points # <<>>
    /\ m_root.m_rightChild.m_points # <<>>

(***************************************************************************)
(* BucketKDTree<2, int> (SpecIntSplit): a leaf is filled with the eight    *)
(* pairwise distinct integer points (0,0) .. (0,6) and (far,0), and a      *)
(* ninth point is inserted and queried.  testPoints is the order of        *)
(* insertion.  A call that never returns leaves the index as it was and    *)
(* is recorded as a fault in 'outcome'; nothing is called after it.        *)
(***************************************************************************)
IntPoint(x, y) == [d \in Dims |-> EPSILON * (IF d = 0 THEN x ELSE y)]

IntLeaf(far) ==
    [i \in 1 .. MAX_POINTS_PER_BUCKET |->
        IF i = MAX_POINTS_PER_BUCKET THEN IntPoint(far, 0) ELSE IntPoint(0, i - 1)]

IntNewPoints ==
    {IntPoint(x, y) : x \in {0, 1, MaxFar + 1}, y \in {1, MAX_POINTS_PER_BUCKET - 1}}

InitIntSplit ==
    /\ testPhase = "intSplit"
    /\ Constructed
    /\ structure = "BucketKDTree"
    /\ testPoints \in {Append(IntLeaf(far), p) : far \in 1 .. MaxFar, p \in IntNewPoints}
    /\ testIndex = 0
    /\ testResult = "none"

\* BucketKDTree::insert(p) never returns: the leaf it arrives at is full,
\* does not hold p, and its splitAndInsert recurses for ever.
RECURSIVE BucketKDTree_insertNeverEnds(_, _)
BucketKDTree_insertNeverEnds(current, p) ==
    IF current.m_isLeaf
    THEN /\ ~BucketKDTreeNode_contains(current, p)
         /\ BucketKDTreeNode_splitNeverEnds(current, p)
    ELSE BucketKDTree_insertNeverEnds(
             IF GoesLeft(current, p) THEN current.m_leftChild
                                     ELSE current.m_rightChild, p)

IntSplitInsert ==
    /\ testPhase = "intSplit"
    /\ ~Faulted
    /\ testIndex < Len(testPoints)
    /\ LET p == testPoints[testIndex + 1]
           r == BucketKDTree_insert(m_root, p)
       IN  /\ op' = "insert"
           /\ arg' = p
           /\ IF BucketKDTree_insertNeverEnds(m_root, p)
              THEN /\ m_root' = m_root
                   /\ ret' = FALSE
                   /\ outcome' = [fault |-> TRUE, value |-> 0]
              ELSE /\ m_root' = r.node
                   /\ ret' = r.ret
                   /\ outcome' = NoOutcome
    /\ testIndex' = testIndex + 1
    /\ UNCHANGED <<structure, kdVars, pyrVars, mgVars, testPoints, testPhase, testResult>>

IntSplitQuery ==
    /\ testPhase = "intSplit"
    /\ ~Faulted
    /\ testIndex >= Len(testPoints)
    /\ testIndex < 2 * Len(testPoints)
    /\ LET p == testPoints[testIndex - Len(testPoints) + 1]
       IN  /\ op' = "query"
           /\ arg' = p
           /\ ret' = BucketKDTree_query(m_root, p)
           /\ outcome' = NoOutcome
    /\ testIndex' = testIndex + 1
    /\ UNCHANGED <<structure, kdVars, bkdVars, pyrVars, mgVars, testPoints, testPhase, testResult>>

NextIntSplit == IntSplitInsert \/ IntSplitQuery

SpecIntSplit == InitIntSplit /\ [][NextIntSplit]_vars

\* C34: BucketKDTree.insert terminates: for every full leaf of 8
\* pairwise-distinct points and every new point, the recursive
\* split-and-insert reaches a leaf with room after finitely many splits,
\* with the cutting value computed as sum / count in the element type
\* (including an integer element type, where the mean is truncated and one
\* side of the partition can be empty).
C34_InsertTerminates ==
    (structure = "BucketKDTree" /\ op = "insert") => ~outcome.fault

(***************************************************************************)
(* Multigrid<1> (SpecMG1): the dimensions insertIntoBucket hashes.  A call *)
(* that reads a coordinate outside the point has no defined result: it is  *)
(* recorded as a fault in 'outcome' and nothing is called after it.        *)
(***************************************************************************)
\* insertIntoBucket(p, currentDim, currentBucket) calls hashPoint(., d) with
\* d >= D: in the split branch of a leaf, which is only taken when
\* currentDim >= D, or at a non-leaf reached with currentDim >= D.
RECURSIVE Multigrid_insertIntoBucketReadsOutside(_, _, _, _)
Multigrid_insertIntoBucketReadsOutside(p, currentDim, currentBucket, bnd) ==
    IF currentBucket.isLeaf
    THEN ~(Len(currentBucket.pointIndices) < m_bucketSize \/ currentDim < D)
    ELSE \/ currentDim >= D
         \/ /\ MapHas(currentBucket.children, Multigrid_hashPoint(p, currentDim, bnd))
            /\ Multigrid_insertIntoBucketReadsOutside(p, currentDim + 1,
                   currentBucket.children[Multigrid_hashPoint(p, currentDim, bnd)],
                   bnd)

\* Multigrid::insert(p) calls hashPoint with a dimension outside [0, D).
Multigrid_insertReadsOutside(mg, p) ==
    LET pyVal == Multigrid_hashPoint(p, 0, mg.boundary)
    IN  /\ MapHas(mg.m_rootBuckets, pyVal)
        /\ Multigrid_insertIntoBucketReadsOutside(p, 1, mg.m_rootBuckets[pyVal],
                                                  mg.boundary)

InitMG1 ==
    /\ testPhase = "oneDim"
    /\ Constructed
    /\ structure = "Multigrid"
    /\ testPoints = <<>>
    /\ testIndex = 0
    /\ testResult = "none"

OneDimInsert(p) ==
    /\ ~Faulted
    /\ IF Multigrid_insertReadsOutside(TheMultigrid, p)
       THEN /\ structure = "Multigrid"
            /\ op' = "insert"
            /\ arg' = p
            /\ ret' = FALSE
            /\ outcome' = [fault |-> TRUE, value |-> 0]
            /\ UNCHANGED <<structure, kdVars, bkdVars, pyrVars, mgVars, testVars>>
       ELSE MultigridInsert(p)

OneDimRemove(p) == ~Faulted /\ MultigridRemove(p)
OneDimQuery(p) == ~Faulted /\ MultigridQuery(p)
OneDimClear(newBoundary) == ~Faulted /\ MultigridClear(newBoundary)

NextMG1 ==
    \/ \E p \in MultigridPoints : OneDimInsert(p)
    \/ \E p \in MultigridPoints : OneDimRemove(p)
    \/ \E p \in MultigridPoints : OneDimQuery(p)
    \/ \E b \in MultigridBoundaries : OneDimClear(b)

SpecMG1 == InitMG1 /\ [][NextMG1]_vars

\* C35: Multigrid never hashes a coordinate index outside [0, D), for every
\* D >= 1: a leaf reached after all D dimensions have been hashed is never
\* split but grows past bucket_size, so hashPoint is only ever called with
\* 0 <= d < D.
C35_HashesInsideOnly ==
    structure = "Multigrid" => ~outcome.fault

(***************************************************************************)
(* Points that share a bucket of the PyramidTree (SpecPyr).                *)
(***************************************************************************)
\* query(q) on the index as it is after the step.
PyrQueryAfter(q) ==
    HashStructure_query(hashMap', PyramidTree_hashPoint(q, m_boundary'), q)

\* The points of the bucket p hashes to (none when there is no bucket).
PyrBucketOf(p) ==
    IF MapHas(hashMap, PyrKey(p)) THEN SeqRange(hashMap[PyrKey(p)].points) ELSE {}

\* C36: PyramidTree bucket collisions: distinct points that hash to the
\* same key coexist in one bucket and stay individually distinguishable;
\* removing one of them (swap-with-last in both parallel lists) returns
\* true, makes only that point query false, and leaves every other point of
\* the bucket querying true; the emptied bucket, if any, never makes a later
\* insert or query of the same key fail.
C36_BucketCollisions ==
    [][(structure = "PyramidTree" /\ ~Faulted)
         => /\ (op' = "insert" /\ arg' \notin PyrBucketOf(arg'))
                 => /\ ret' = TRUE
                    /\ SeqRange(hashMap'[PyrKey(arg')].points)
                          = PyrBucketOf(arg') \cup {arg'}
                    /\ \A q \in PyrBucketOf(arg') \cup {arg'} : PyrQueryAfter(q)
            /\ (op' = "remove" /\ arg' \in PyrBucketOf(arg'))
                 => /\ ret' = TRUE
                    /\ ~PyrQueryAfter(arg')
                    /\ \A q \in PyrBucketOf(arg') \ {arg'} : PyrQueryAfter(q)
                    /\ \A q \in HashPoints(hashMap) \ {arg'} : PyrQueryAfter(q)
            /\ (op' = "query" /\ MapHas(hashMap, PyrKey(arg')))
                 => ret' = (arg' \in PyrBucketOf(arg'))]_vars

\* A remove has taken the first of three or more points out of its bucket:
\* the last one has moved into its place.
C36_Witness ==
    /\ structure = "PyramidTree"
    /\ op = "remove"
    /\ ret = TRUE
    /\ MapHas(hashMap, PyrKey(arg))
    /\ Len(hashMap[PyrKey(arg)].points) >= 2
    /\ arg \notin PyrBucketOf(arg)
    /\ IndexOf(hashMap[PyrKey(arg)].points[1]) > IndexOf(arg)
    /\ IndexOf(hashMap[PyrKey(arg)].points[1]) > IndexOf(hashMap[PyrKey(arg)].points[2])

\* An insert has put a point into a bucket that a remove had emptied.
C36_EmptiedBucketReused ==
    /\ structure = "PyramidTree"
    /\ op = "insert"
    /\ ret = TRUE
    /\ hashMap[PyrKey(arg)].points = <<arg>>
    /\ \E key \in DOMAIN hashMap : hashMap[key].points = <<>>

====
